---- MODULE Spec2Model ----
(***************************************************************************)
(* Eagle File Server plugin: the query engine (matchesFilter, sortFiles,   *)
(* pagination in getFileList) and the item resolution of the two variants  *)
(* of the plugin kept in the repository:                                   *)
(*   "dir"  src/js/plugin.js      walks <library>/images/<id>.info         *)
(*   "api"  src/unnamed/part_000  asks the Eagle catalog API               *)
(*                                                                         *)
(* Strings are sequences of one-character strings, so that toLowerCase,    *)
(* split, trim, includes, path.extname, parseInt and JSON.stringify are    *)
(* computed character by character as the JavaScript computes them.        *)
(***************************************************************************)
EXTENDS Integers, Sequences, FiniteSets, TLC

VARIABLES
    variant,      \* which of the two source files runs: "dir" or "api"
    pc,           \* position of the running call / request
    file,         \* matchesFilter: its first argument (an item record or null)
    filters,      \* the filter object of the call / request
    matchResult,  \* matchesFilter: the value returned
    files,        \* sortFiles: the array passed in (sorted in place)
    given,        \* sortFiles: the content of that array when the call began
    orderBy,      \* sortFiles: its second argument
    sortedFiles,  \* sortFiles: the array returned
    images,       \* the directory <library>/images, in readdir order
    fileIds,      \* getFileList: ids still to load (const fileIds, loop cursor)
    loaded,       \* getFileList: the local array files
    response,     \* what getFileList returned / handleGetList answered
    eagleDataPath, \* this.eagleDataPath: TRUE once it holds the library path
    req,          \* the request being served: method, pathname
    res,          \* its http.ServerResponse
    stream,       \* the fs.ReadStream piped into res
    matchingIds,  \* getRandomFileId: the local array matchingIds
    randomId,     \* the id getRandomFileId returned
    calls,        \* the lookups made for this request, in call order
    served,       \* requests accepted so far
    deleted,      \* what the library removed while this request ran: the
                  \* directory, its id, and whether the request had not yet
                  \* resolved that id (before)
    providerFailed, \* a call of the Eagle API threw or rejected in this request
    isRunning,    \* this.isRunning
    server,       \* this.server: none, or the http.Server created last
    servers,      \* every http.Server this instance created, with its state
    starting      \* calls of init() that await the API test before they start
                  \* the server

\* the state of the plugin's life cycle
lifeVars == <<isRunning, server, servers, starting>>

vars == <<variant, pc, file, filters, matchResult, files, given, orderBy,
          sortedFiles, images, fileIds, loaded, response,
          eagleDataPath, req, res, stream, matchingIds, randomId, calls,
          served, deleted, providerFailed, lifeVars>>

\* the state of the HTTP side of the server
serverVars == <<eagleDataPath, req, res, stream, matchingIds, randomId, calls,
                served, deleted, providerFailed, lifeVars>>

-----------------------------------------------------------------------------
(* JavaScript strings                                                      *)

UpperCaseChars == <<"A","B","C","D","E","F","G","H","I","J","K","L","M",
                    "N","O","P","Q","R","S","T","U","V","W","X","Y","Z">>

LowerCaseChars == <<"a","b","c","d","e","f","g","h","i","j","k","l","m",
                    "n","o","p","q","r","s","t","u","v","w","x","y","z">>

DigitChars == <<"0","1","2","3","4","5","6","7","8","9">>

IsUpper(c) == \E i \in 1..Len(UpperCaseChars) : UpperCaseChars[i] = c

IsDigit(c) == \E i \in 1..Len(DigitChars) : DigitChars[i] = c

DigitValue(c) == (CHOOSE i \in 1..Len(DigitChars) : DigitChars[i] = c) - 1

LowerChar(c) ==
    IF IsUpper(c)
    THEN LowerCaseChars[CHOOSE i \in 1..Len(UpperCaseChars) : UpperCaseChars[i] = c]
    ELSE c

\* String.prototype.toLowerCase
toLowerCase(s) == [i \in 1..Len(s) |-> LowerChar(s[i])]

\* String.prototype.includes
includes(s, k) ==
    \/ Len(k) = 0
    \/ \E i \in 1..(Len(s) - Len(k) + 1) : SubSeq(s, i, i + Len(k) - 1) = k

\* String.prototype.startsWith / endsWith
startsWith(s, p) == Len(p) <= Len(s) /\ SubSeq(s, 1, Len(p)) = p

endsWith(s, p) == Len(p) <= Len(s) /\ SubSeq(s, Len(s) - Len(p) + 1, Len(s)) = p

IsSpace(c) == c = " "

RECURSIVE trimStart(_)
trimStart(s) ==
    IF Len(s) > 0 /\ IsSpace(Head(s)) THEN trimStart(Tail(s)) ELSE s

RECURSIVE trimEnd(_)
trimEnd(s) ==
    IF Len(s) > 0 /\ IsSpace(s[Len(s)]) THEN trimEnd(SubSeq(s, 1, Len(s) - 1)) ELSE s

\* String.prototype.trim
trim(s) == trimEnd(trimStart(s))

\* String.prototype.split(','): "" gives [""], "a," gives ["a", ""]
RECURSIVE splitComma(_)
splitComma(s) ==
    IF \E i \in 1..Len(s) : s[i] = ","
    THEN LET i == CHOOSE j \in 1..Len(s) :
                      s[j] = "," /\ \A k \in 1..(j - 1) : s[k] # ","
         IN  <<SubSeq(s, 1, i - 1)>> \o splitComma(SubSeq(s, i + 1, Len(s)))
    ELSE <<s>>

\* a.map(t => t.toLowerCase())
lowerAll(a) == [i \in 1..Len(a) |-> toLowerCase(a[i])]

\* a.map(t => t.trim())
trimAll(a) == [i \in 1..Len(a) |-> trim(a[i])]

\* Array.prototype.includes
arrayIncludes(a, x) == \E i \in 1..Len(a) : a[i] = x

\* path.extname on a bare file name: from the last '.' to the end; '' when there
\* is no '.', when the only '.' is the first character, and for '..'
extname(name) ==
    LET dots == {i \in 1..Len(name) : name[i] = "."}
    IN  IF dots = {} THEN <<>>
        ELSE LET last == CHOOSE i \in dots : \A j \in dots : j <= i
             IN  IF last = 1 \/ name = <<".", ".">> THEN <<>>
                 ELSE SubSeq(name, last, Len(name))

RECURSIVE Flatten(_, _)
\* Array.prototype.join(sep) of an array of strings
Flatten(a, sep) ==
    IF Len(a) = 0 THEN <<>>
    ELSE IF Len(a) = 1 THEN a[1]
    ELSE a[1] \o sep \o Flatten(Tail(a), sep)

RECURSIVE parseDigits(_)
\* the number a string of decimal digits denotes
parseDigits(s) ==
    IF Len(s) = 0 THEN 0
    ELSE 10 * parseDigits(SubSeq(s, 1, Len(s) - 1)) + DigitValue(s[Len(s)])

RECURSIVE numberToString(_)
\* Number.prototype.toString for the non-negative integers of the model
numberToString(n) ==
    IF n < 10 THEN <<DigitChars[n + 1]>>
    ELSE numberToString(n \div 10) \o <<DigitChars[(n % 10) + 1]>>

\* new Date(ms).toISOString(): the instant as a string.  The model writes the
\* instant as its count of milliseconds in decimal digits.
toISOString(ms) == numberToString(ms)

\* new Date(isoString) in arithmetic (a - b): the instant's milliseconds
dateValue(iso) == parseDigits(iso)

-----------------------------------------------------------------------------
(* JavaScript values                                                       *)

\* null / undefined, the value the loaders return for an item they cannot resolve
null == [isNull |-> TRUE]

\* An optional number (metadata.width || null): <<>> is null, <<n>> the number n
NoNumber == <<>>

\* A value of a filter field.  searchParams.get gives a string or null; callers
\* of matchesFilter may also pass tags / folders as an array of strings.
\*   kind "null": absent;  kind "str": the string s;  kind "arr": the array a
Absent == [kind |-> "null", s |-> <<>>, a |-> <<>>]

StrVal(s) == [kind |-> "str", s |-> s, a |-> <<>>]

ArrVal(a) == [kind |-> "arr", s |-> <<>>, a |-> a]

\* JavaScript truthiness of a filter value: null and "" are falsy, every array
\* (the empty one included) is truthy
Truthy(v) ==
    \/ v.kind = "arr"
    \/ v.kind = "str" /\ Len(v.s) > 0

-----------------------------------------------------------------------------
(* metadata.json: the parsed object is the ordered list of its members.    *)
(* A member is [k, t, s, a, n]: key k, and by type t the string s, the     *)
(* array of strings a or the number n.                                     *)

MStr(k, s) == [k |-> k, t |-> "str", s |-> s, a |-> <<>>, n |-> 0]

MArr(k, a) == [k |-> k, t |-> "arr", s |-> <<>>, a |-> a, n |-> 0]

MNum(k, n) == [k |-> k, t |-> "num", s |-> <<>>, a |-> <<>>, n |-> n]

HasMember(metadata, k) == \E i \in 1..Len(metadata) : metadata[i].k = k

Member(metadata, k) == metadata[CHOOSE i \in 1..Len(metadata) : metadata[i].k = k]

\* metadata.<k> || '' for a string member
MemberStr(metadata, k) ==
    IF HasMember(metadata, k) /\ Member(metadata, k).t = "str"
    THEN Member(metadata, k).s ELSE <<>>

\* metadata.<k> || [] for an array member
MemberArr(metadata, k) ==
    IF HasMember(metadata, k) /\ Member(metadata, k).t = "arr"
    THEN Member(metadata, k).a ELSE <<>>

\* metadata.<k> || dflt for a number member (0 is falsy)
MemberNum(metadata, k, dflt) ==
    IF HasMember(metadata, k) /\ Member(metadata, k).t = "num" /\ Member(metadata, k).n # 0
    THEN Member(metadata, k).n ELSE dflt

Quote(s) == <<"\"">> \o s \o <<"\"">>

stringifyMember(m) ==
    Quote(m.k) \o <<":">> \o
    ( IF m.t = "str" THEN Quote(m.s)
      ELSE IF m.t = "arr" THEN <<"[">> \o Flatten([i \in 1..Len(m.a) |-> Quote(m.a[i])], <<",">>) \o <<"]">>
      ELSE numberToString(m.n) )

\* JSON.stringify of a parsed metadata object (no character of the model needs
\* escaping)
JSONstringify(metadata) ==
    <<"{">> \o Flatten([i \in 1..Len(metadata) |-> stringifyMember(metadata[i])], <<",">>) \o <<"}">>

-----------------------------------------------------------------------------
(* getFileType: the fixed extension table                                  *)

imageExts ==
    { <<".","j","p","g">>,
      <<".","j","p","e","g">>,
      <<".","p","n","g">>,
      <<".","g","i","f">>,
      <<".","b","m","p">>,
      <<".","w","e","b","p">>,
      <<".","s","v","g">>,
      <<".","t","i","f","f">> }

videoExts ==
    { <<".","m","p","4">>,
      <<".","a","v","i">>,
      <<".","m","o","v">>,
      <<".","w","m","v">>,
      <<".","f","l","v">>,
      <<".","w","e","b","m">>,
      <<".","m","k","v">> }

audioExts ==
    { <<".","m","p","3">>,
      <<".","w","a","v">>,
      <<".","f","l","a","c">>,
      <<".","a","a","c">>,
      <<".","o","g","g">>,
      <<".","m","4","a">> }

docExts ==
    { <<".","p","d","f">>,
      <<".","d","o","c">>,
      <<".","d","o","c","x">>,
      <<".","t","x","t">>,
      <<".","r","t","f">>,
      <<".","j","s">> }

getFileType(ext) ==
    IF ext \in imageExts THEN "image"
    ELSE IF ext \in videoExts THEN "video"
    ELSE IF ext \in audioExts THEN "audio"
    ELSE IF ext \in docExts THEN "document"
    ELSE "other"

-----------------------------------------------------------------------------
(* The library on disk.  images = [exists, dirs]; dirs is the listing of   *)
(* <library>/images in readdir order, each directory                       *)
(*   [name, meta, metadata, listing]                                       *)
(* meta: "none" no metadata.json, "bad" malformed JSON, "ok" parses to     *)
(* metadata; listing: the directory's other entries in readdir order, each *)
(* [name, isFile, size, birthtime, mtime].                                 *)

DotInfo == <<".","i","n","f","o">>

ThumbnailSuffix == <<"_","t","h","u","m","b","n","a","i","l",".","p","n","g">>

DotJson == <<".","j","s","o","n">>

\* String.prototype.replace(pat, '') with a string pattern: the FIRST occurrence
removeFirst(s, pat) ==
    IF includes(s, pat) /\ Len(pat) > 0
    THEN LET i == CHOOSE j \in 1..(Len(s) - Len(pat) + 1) :
                      /\ SubSeq(s, j, j + Len(pat) - 1) = pat
                      /\ \A k \in 1..(j - 1) : SubSeq(s, k, k + Len(pat) - 1) # pat
         IN  SubSeq(s, 1, i - 1) \o SubSeq(s, i + Len(pat), Len(s))
    ELSE s

\* getAllFileIds: [] when images is missing, else every directory name that ends
\* in '.info', with its first '.info' removed
getAllFileIds(img) ==
    IF ~img.exists THEN <<>>
    ELSE LET IsInfo(d) == endsWith(d.name, DotInfo)
             infoDirs == SelectSeq(img.dirs, IsInfo)
         IN  [i \in 1..Len(infoDirs) |-> removeFirst(infoDirs[i].name, DotInfo)]

\* fs.existsSync(path.join(imagesPath, `${fileId}.info`))
itemDirExists(img, fileId) ==
    img.exists /\ \E i \in 1..Len(img.dirs) : img.dirs[i].name = fileId \o DotInfo

itemDir(img, fileId) ==
    img.dirs[CHOOSE i \in 1..Len(img.dirs) : img.dirs[i].name = fileId \o DotInfo]

\* filesInDir.find(...): the first entry that is no generated thumbnail, no .json
\* file and is a regular file; <<>> when there is none, else <<entry>>
mainFileOf(dir) ==
    LET IsMain(f) == /\ ~endsWith(f.name, ThumbnailSuffix)
                     /\ ~endsWith(f.name, DotJson)
                     /\ f.isFile
        found == SelectSeq(dir.listing, IsMain)
    IN  IF Len(found) = 0 THEN <<>> ELSE <<found[1]>>

\* loadFileById of plugin.js: the full record, or null
\* what JSON.parse throws on a malformed metadata.json
SyntaxError == [thrown |-> "SyntaxError"]

\* the error leaves the lookup
rethrow(error) == error

\* catch (error) { ...; return null; } around the whole body of loadFileById
\* and of loadFileMetadata
returnNull(error) == null

loadFileById(img, fileId) ==
    IF ~itemDirExists(img, fileId) THEN null
    ELSE LET dir == itemDir(img, fileId) IN
    IF dir.meta = "none" THEN null
    ELSE IF dir.meta = "bad" THEN returnNull(SyntaxError)
    ELSE IF mainFileOf(dir) = <<>> THEN null
    ELSE LET mainFile == mainFileOf(dir)[1]
             metadata == dir.metadata
             ext      == toLowerCase(extname(mainFile.name))
         IN  [ id       |-> fileId,
               name     |-> mainFile.name,
               path     |-> <<dir.name, mainFile.name>>,
               type     |-> getFileType(ext),
               size     |-> mainFile.size,
               created  |-> toISOString(MemberNum(metadata, "btime", mainFile.birthtime)),
               modified |-> toISOString(MemberNum(metadata, "mtime", mainFile.mtime)),
               tags     |-> MemberArr(metadata, "tags"),
               folders  |-> MemberArr(metadata, "folders"),
               ext      |-> ext,
               width    |-> IF MemberNum(metadata, "width", 0) = 0 THEN NoNumber
                            ELSE <<MemberNum(metadata, "width", 0)>>,
               height   |-> IF MemberNum(metadata, "height", 0) = 0 THEN NoNumber
                            ELSE <<MemberNum(metadata, "height", 0)>>,
               metadata |-> metadata ]

\* loadFileMetadata of plugin.js: the lightweight record, or null
loadFileMetadata(img, fileId) ==
    IF ~itemDirExists(img, fileId) THEN null
    ELSE LET dir == itemDir(img, fileId) IN
    IF dir.meta = "none" THEN null
    ELSE IF dir.meta = "bad" THEN returnNull(SyntaxError)
    ELSE LET metadata == dir.metadata
             fromMeta == IF Len(MemberStr(metadata, "name")) > 0
                         THEN MemberStr(metadata, "name")
                         ELSE MemberStr(metadata, "ext")
             fileName == IF Len(fromMeta) > 0 THEN fromMeta
                         ELSE IF mainFileOf(dir) = <<>> THEN <<>>
                         ELSE mainFileOf(dir)[1].name
         IN  [ id       |-> fileId,
               name     |-> fileName,
               ext      |-> toLowerCase(extname(fileName)),
               tags     |-> MemberArr(metadata, "tags"),
               folders  |-> MemberArr(metadata, "folders"),
               metadata |-> metadata ]

-----------------------------------------------------------------------------
(* matchesFilter                                                           *)

\* mutant: the keyword test without the metadata blob
keywordMatchesNameAndTagsOnly(f, kw) ==
    LET keyword   == toLowerCase(kw)
        nameMatch == includes(toLowerCase(f.name), keyword)
        tagsMatch1 == \E i \in 1..Len(f.tags) : includes(toLowerCase(f.tags[i]), keyword)
    IN  nameMatch \/ tagsMatch1

\* the keyword test: name OR any tag OR the serialized metadata
keywordMatches(f, kw) ==
    LET keyword       == toLowerCase(kw)
        nameMatch     == includes(toLowerCase(f.name), keyword)
        tagsMatch     == \E i \in 1..Len(f.tags) : includes(toLowerCase(f.tags[i]), keyword)
        metadataMatch == includes(toLowerCase(JSONstringify(f.metadata)), keyword)
    IN  nameMatch \/ tagsMatch \/ metadataMatch

\* the extension test: the filter is lower-cased and given a leading dot, the
\* item's ext is taken as it is (path.extname of the name when ext is empty)
extMatches(f, e) ==
    LET lowered   == toLowerCase(e)
        extFilter == IF startsWith(lowered, <<".">>) THEN lowered ELSE <<".">> \o lowered
        fileExt   == IF Len(f.ext) > 0 THEN f.ext ELSE toLowerCase(extname(f.name))
    IN  fileExt = extFilter

\* filters.tags / filters.folders as an array: an array is taken as it is, a
\* string is split at ',' and each part trimmed
requiredList(v) ==
    IF v.kind = "arr" THEN v.a ELSE trimAll(splitComma(v.s))

\* mutant: the tags test with OR semantics
tagsMatchAny(f, v) ==
    LET requiredTags == requiredList(v)
        fileTags     == lowerAll(f.tags)
    IN  \E i \in 1..Len(requiredTags) :
            arrayIncludes(fileTags, toLowerCase(requiredTags[i]))

\* the tags test: every required tag is among the item's tags
tagsMatch(f, v) ==
    LET requiredTags == requiredList(v)
        fileTags     == lowerAll(f.tags)
    IN  \A i \in 1..Len(requiredTags) :
            arrayIncludes(fileTags, toLowerCase(requiredTags[i]))

\* mutant: the folders test with AND semantics
foldersMatchAll(f, v) ==
    LET requiredFolders == requiredList(v)
        fileFolders     == lowerAll(f.folders)
    IN  \A i \in 1..Len(requiredFolders) :
            arrayIncludes(fileFolders, toLowerCase(requiredFolders[i]))

\* the folders test: some required folder is among the item's folders
foldersMatch(f, v) ==
    LET requiredFolders == requiredList(v)
        fileFolders     == lowerAll(f.folders)
    IN  \E i \in 1..Len(requiredFolders) :
            arrayIncludes(fileFolders, toLowerCase(requiredFolders[i]))

\* mutant: the tags test runs although filters.tags is absent
matchesFilterTagsUnguarded(f, flt) ==
    IF f = null THEN FALSE
    ELSE /\ Truthy(flt.keyword) => keywordMatches(f, flt.keyword.s)
         /\ Truthy(flt.ext)     => extMatches(f, flt.ext.s)
         /\ tagsMatch(f, flt.tags)
         /\ Truthy(flt.folders) => foldersMatch(f, flt.folders)

matchesFilter(f, flt) ==
    IF f = null THEN FALSE
    ELSE /\ Truthy(flt.keyword) => keywordMatches(f, flt.keyword.s)
         /\ Truthy(flt.ext)     => extMatches(f, flt.ext.s)
         /\ Truthy(flt.tags)    => tagsMatch(f, flt.tags)
         /\ Truthy(flt.folders) => foldersMatch(f, flt.folders)

-----------------------------------------------------------------------------
(* The libraries and requests the model runs on                            *)

FileEntry(name, isFile, size, time) ==
    [name |-> name, isFile |-> isFile, size |-> size, birthtime |-> time, mtime |-> time]

\* A.info: Eagle's own layout, metadata.name without the extension
DirA ==
    [ name     |-> <<"A",".","i","n","f","o">>,
      meta     |-> "ok",
      metadata |-> << MStr("name", <<"a">>), MStr("ext", <<"p","n","g">>),
                      MArr("tags", <<<<"x">>>>), MArr("folders", <<<<"Q">>>>),
                      MNum("btime", 3), MNum("mtime", 4) >>,
      listing  |-> << FileEntry(<<"a",".","p","n","g">>, TRUE, 10, 1),
                      FileEntry(<<"a","_","t","h","u","m","b","n","a","i","l",".","p","n","g">>, TRUE, 2, 1) >> ]

\* B.info: upper-case payload name, the thumbnail listed first
DirB ==
    [ name     |-> <<"B",".","i","n","f","o">>,
      meta     |-> "ok",
      metadata |-> << MStr("name", <<"B",".","P","N","G">>),
                      MArr("tags", <<<<"X">>, <<"y">>>>), MArr("folders", <<<<"k">>, <<"Q">>>>),
                      MNum("width", 4), MNum("height", 2), MNum("btime", 1) >>,
      listing  |-> << FileEntry(<<"b","_","t","h","u","m","b","n","a","i","l",".","p","n","g">>, TRUE, 2, 2),
                      FileEntry(<<"b",".","P","N","G">>, TRUE, 20, 2) >> ]

\* C.info: metadata without name and folders, timestamps from the file system
DirC ==
    [ name     |-> <<"C",".","i","n","f","o">>,
      meta     |-> "ok",
      metadata |-> << MArr("tags", <<<<"y">>>>) >>,
      listing  |-> << FileEntry(<<"c",".","p","n","g">>, TRUE, 5, 2) >> ]

\* D.info: a payload without extension, no tags, no folders
DirD ==
    [ name     |-> <<"D",".","i","n","f","o">>,
      meta     |-> "ok",
      metadata |-> << MStr("name", <<"U","P">>), MArr("tags", <<>>), MArr("folders", <<>>) >>,
      listing  |-> << FileEntry(<<"U","P">>, TRUE, 10, 5) >> ]

\* E.info: a tag that contains another tag, a sub-directory before the payload
DirE ==
    [ name     |-> <<"E",".","i","n","f","o">>,
      meta     |-> "ok",
      metadata |-> << MStr("name", <<"e",".","m","p","4">>), MArr("tags", <<<<"x","y">>, <<" ","y">>>>),
                      MArr("folders", <<<<"K">>>>) >>,
      listing  |-> << FileEntry(<<"s","u","b">>, FALSE, 0, 1),
                      FileEntry(<<"e",".","m","p","4">>, TRUE, 7, 3) >> ]

\* directories no item can be resolved from
DirNoMeta ==
    [ name |-> <<"N",".","i","n","f","o">>, meta |-> "none", metadata |-> <<>>,
      listing |-> << FileEntry(<<"n",".","p","n","g">>, TRUE, 1, 1) >> ]

DirBadMeta ==
    [ name |-> <<"M",".","i","n","f","o">>, meta |-> "bad", metadata |-> <<>>,
      listing |-> << FileEntry(<<"m",".","p","n","g">>, TRUE, 1, 1) >> ]

DirNoPayload ==
    [ name |-> <<"P",".","i","n","f","o">>, meta |-> "ok",
      metadata |-> << MStr("name", <<"p">>), MArr("tags", <<<<"x">>>>) >>,
      listing |-> << FileEntry(<<"p","_","t","h","u","m","b","n","a","i","l",".","p","n","g">>, TRUE, 2, 1),
                     FileEntry(<<"p",".","j","s","o","n">>, TRUE, 2, 1) >> ]

SampleDirs == <<DirA, DirB, DirC, DirD, DirE, DirNoMeta, DirBadMeta, DirNoPayload>>

SampleImages == [exists |-> TRUE, dirs |-> SampleDirs]

\* Item records handed to matchesFilter directly (the method is public on
\* window.eagleFileServer): ext as the catalog reports it, without the dot, and
\* ext in upper case
RawItems ==
    { [ id |-> <<"R","1">>, name |-> <<"r",".","p","n","g">>, ext |-> <<"p","n","g">>,
        tags |-> <<<<"x">>>>, folders |-> <<>>, metadata |-> <<>> ],
      [ id |-> <<"R","2">>, name |-> <<"r",".","P","N","G">>, ext |-> <<".","P","N","G">>,
        tags |-> <<>>, folders |-> <<<<"Q">>>>, metadata |-> <<>> ] }

\* every first argument matchesFilter is called with in the model
FilterSubjects ==
    { loadFileById(SampleImages, id) : id \in {getAllFileIds(SampleImages)[i] :
                                               i \in 1..Len(getAllFileIds(SampleImages))} }
    \cup { loadFileMetadata(SampleImages, id) : id \in {getAllFileIds(SampleImages)[i] :
                                               i \in 1..Len(getAllFileIds(SampleImages))} }
    \cup RawItems

KeywordValues ==
    { Absent, StrVal(<<>>), StrVal(<<".","P">>), StrVal(<<"q">>), StrVal(<<"Y">>),
      StrVal(<<"z","z">>) }

ExtValues ==
    { Absent, StrVal(<<>>), StrVal(<<"p","n","g">>), StrVal(<<".","p","n","g">>), StrVal(<<"P","N","G">>),
      StrVal(<<".">>), StrVal(<<"m","p","4">>) }

TagsValues ==
    { Absent, StrVal(<<>>), StrVal(<<"x">>), StrVal(<<"Y",","," ","x">>), StrVal(<<"x",",">>),
      ArrVal(<<<<"x">>, <<"Y">>>>), ArrVal(<<<<"y">>>>), ArrVal(<<<<" ","y">>>>), ArrVal(<<>>) }

FoldersValues ==
    { Absent, StrVal(<<>>), StrVal(<<"q">>), StrVal(<<"k"," ",",","z">>), StrVal(<<",">>),
      ArrVal(<<<<"z">>, <<"K">>>>), ArrVal(<<<<"z">>>>), ArrVal(<<>>) }

MatchFilters ==
    [keyword : KeywordValues, ext : ExtValues, tags : TagsValues, folders : FoldersValues]

NoFilters == [keyword |-> Absent, ext |-> Absent, tags |-> Absent, folders |-> Absent]

-----------------------------------------------------------------------------
(* http.ServerResponse and fs.ReadStream, as far as the handlers use them  *)

\* this.enableCORS: set in the constructor, never assigned again
enableCORS == TRUE

\* the value of getRandomFileId: <<>> is null, <<id>> the id
NoId == <<>>

NoBody == [kind |-> "none"]

\* JSON.stringify({ success: false, error: msg })
JsonError(msg) == [kind |-> "json", success |-> FALSE, error |-> msg, data |-> null]

\* JSON.stringify({ success: true, data: d })
JsonData(d) == [kind |-> "json", success |-> TRUE, error |-> "", data |-> d]

\* the body of the default response: { status: 'ok', ... }
JsonStatus == [kind |-> "json", status |-> "ok"]

\* the response object createServer hands to its callback: headers holds the
\* pairs <<name, value>> set so far, statusLines the status codes written,
\* ends the number of calls of res.end, chunks the payload chunks written,
\* open is FALSE once the connection is closed
FreshResponse ==
    [ headers |-> {}, headersSent |-> FALSE, statusLines |-> <<>>,
      ends |-> 0, body |-> NoBody, chunks |-> 0, open |-> TRUE ]

\* res.setHeader(name, value): a header of that name is replaced
setHeader(r, name, value) ==
    [r EXCEPT !.headers = {h \in @ : h[1] # name} \cup {<<name, value>>}]

\* res.writeHead(code, hdrs): the status line and the headers are fixed
writeHead(r, code, hdrs) ==
    [r EXCEPT !.statusLines = Append(@, code),
              !.headersSent = TRUE,
              !.headers = {h \in @ : \A n \in hdrs : h[1] # n[1]} \cup hdrs]

\* the first res.write / res.end without writeHead sends the headers with the
\* default status code 200
implicitHeader(r) == IF r.headersSent THEN r ELSE writeHead(r, 200, {})

\* res.write(chunk), called by pipe for every chunk read
write(r) == [implicitHeader(r) EXCEPT !.chunks = @ + 1]

\* res.end(body)
end(r, body) == [implicitHeader(r) EXCEPT !.ends = @ + 1, !.body = body]

\* res.writeHead(code, { 'Content-Type': 'application/json' }); res.end(JSON.stringify(body))
sendJSON(r, code, body) ==
    end(writeHead(r, code, {<<"Content-Type", "application/json">>}), body)

\* no stream was created / fs.createReadStream(path) piped into res: phase is
\* "opening" until the file is open, then "open", "ended" or "errored"; fd is
\* TRUE while the file descriptor is held; piped is FALSE once pipe let go of
\* the response
NoStream == [phase |-> "none", piped |-> FALSE, fd |-> FALSE, path |-> <<>>]

createReadStream(path) == [phase |-> "opening", piped |-> TRUE, fd |-> FALSE, path |-> path]

mimeTypes ==
    << <<<<".","j","p","g">>, "image/jpeg">>,
       <<<<".","j","p","e","g">>, "image/jpeg">>,
       <<<<".","p","n","g">>, "image/png">>,
       <<<<".","g","i","f">>, "image/gif">>,
       <<<<".","b","m","p">>, "image/bmp">>,
       <<<<".","w","e","b","p">>, "image/webp">>,
       <<<<".","s","v","g">>, "image/svg+xml">>,
       <<<<".","t","i","f","f">>, "image/tiff">>,
       <<<<".","m","p","4">>, "video/mp4">>,
       <<<<".","a","v","i">>, "video/x-msvideo">>,
       <<<<".","m","o","v">>, "video/quicktime">>,
       <<<<".","w","m","v">>, "video/x-ms-wmv">>,
       <<<<".","f","l","v">>, "video/x-flv">>,
       <<<<".","w","e","b","m">>, "video/webm">>,
       <<<<".","m","k","v">>, "video/x-matroska">>,
       <<<<".","m","p","3">>, "audio/mpeg">>,
       <<<<".","w","a","v">>, "audio/wav">>,
       <<<<".","f","l","a","c">>, "audio/flac">>,
       <<<<".","a","a","c">>, "audio/aac">>,
       <<<<".","o","g","g">>, "audio/ogg">>,
       <<<<".","m","4","a">>, "audio/mp4">>,
       <<<<".","p","d","f">>, "application/pdf">>,
       <<<<".","d","o","c">>, "application/msword">>,
       <<<<".","d","o","c","x">>, "application/vnd.openxmlformats-officedocument.wordprocessingml.document">>,
       <<<<".","t","x","t">>, "text/plain">>,
       <<<<".","r","t","f">>, "application/rtf">> >>

\* path.basename of a payload path <<item directory, file name>>
basename(filePath) == IF filePath = <<>> THEN <<>> ELSE filePath[Len(filePath)]

\* getMimeType(filePath): mimeTypes[ext] || 'application/octet-stream'
getMimeType(filePath) ==
    LET ext == toLowerCase(extname(basename(filePath)))
    IN  IF \E i \in 1..Len(mimeTypes) : mimeTypes[i][1] = ext
        THEN mimeTypes[CHOOSE i \in 1..Len(mimeTypes) : mimeTypes[i][1] = ext][2]
        ELSE "application/octet-stream"

\* fs.existsSync(filePath) for a payload path
existsSync(img, filePath) ==
    /\ Len(filePath) = 2
    /\ img.exists
    /\ \E i \in 1..Len(img.dirs) :
          /\ img.dirs[i].name = filePath[1]
          /\ \E j \in 1..Len(img.dirs[i].listing) : img.dirs[i].listing[j].name = filePath[2]

\* the three setHeader calls before the payload is streamed
streamHeaders(r, filePath) ==
    setHeader(setHeader(setHeader(r, "Content-Type", getMimeType(filePath)),
                        "Content-Disposition", <<"inline", basename(filePath)>>),
              "Cache-Control", "public, max-age=3600")

-----------------------------------------------------------------------------
(* SpecMatch: one call of matchesFilter on every subject and filter        *)

IdleSort == /\ files = <<>>
            /\ given = <<>>
            /\ orderBy = Absent
            /\ sortedFiles = <<>>

IdleList == /\ images = [exists |-> FALSE, dirs |-> <<>>]
            /\ fileIds = <<>>
            /\ loaded = <<>>
            /\ response = null

IdleMatch == /\ file = null
             /\ matchResult = FALSE

\* no http.Server yet: the fields as the constructor leaves them
NoServer == <<>>

IdleLife == /\ isRunning = FALSE
            /\ server = NoServer
            /\ servers = <<>>
            /\ starting = 0

\* one http.Server, created by startHTTPServer, whose listen callback has run
ServingLife == /\ isRunning = TRUE
               /\ server = <<1>>
               /\ servers = <<"listening">>
               /\ starting = 0

\* no request has been received
IdleServer == /\ eagleDataPath = TRUE
              /\ req = null
              /\ res = null
              /\ stream = NoStream
              /\ matchingIds = <<>>
              /\ randomId = NoId
              /\ calls = <<>>
              /\ served = 0
              /\ deleted = {}
              /\ providerFailed = FALSE
              /\ IdleLife

InitMatch ==
    /\ variant = "dir"
    /\ pc = "call"
    /\ file \in FilterSubjects \cup {null}
    /\ filters \in MatchFilters
    /\ matchResult = FALSE
    /\ IdleSort
    /\ IdleList
    /\ IdleServer

CallMatchesFilter ==
    /\ pc = "call"
    /\ matchResult' = matchesFilter(file, filters)
    /\ pc' = "matched"
    /\ UNCHANGED <<variant, file, filters, files, given, orderBy, sortedFiles,
                   images, fileIds, loaded, response>>
    /\ UNCHANGED serverVars

NextMatch == CallMatchesFilter

SpecMatch == InitMatch /\ [][NextMatch]_vars

-----------------------------------------------------------------------------
(* What the filter claims speak of, stated without the code's helpers      *)

\* s and t are equal when compared case-insensitively
CIEqual(s, t) ==
    /\ Len(s) = Len(t)
    /\ \A i \in 1..Len(s) : LowerChar(s[i]) = LowerChar(t[i])

\* k is a case-insensitive substring of s
CIContains(s, k) ==
    \E off \in 0..(Len(s) - Len(k)) :
        \A j \in 1..Len(k) : LowerChar(s[off + j]) = LowerChar(k[j])

\* t without the blanks around it
Strip(t) ==
    LET solid == {i \in 1..Len(t) : t[i] # " "}
    IN  IF solid = {} THEN <<>>
        ELSE SubSeq(t, CHOOSE i \in solid : \A j \in solid : i <= j,
                       CHOOSE i \in solid : \A j \in solid : j <= i)

\* the names a tags / folders value lists: the elements of an array, the
\* comma-separated parts of a string
ListedNames(v) ==
    IF v.kind = "arr" THEN {v.a[i] : i \in 1..Len(v.a)}
    ELSE { Strip(SubSeq(v.s, b, e)) :
             <<b, e>> \in { be \in (1..(Len(v.s) + 1)) \X (0..Len(v.s)) :
                 /\ be[2] >= be[1] - 1
                 /\ be[1] = 1 \/ v.s[be[1] - 1] = ","
                 /\ be[2] = Len(v.s) \/ v.s[be[2] + 1] = ","
                 /\ \A i \in be[1]..be[2] : v.s[i] # "," } }

NonEmptyList(v) ==
    \/ v.kind = "arr" /\ Len(v.a) > 0
    \/ v.kind = "str" /\ Len(v.s) > 0

OnlyField(k) ==
    \A other \in {"keyword", "ext", "tags", "folders"} \ {k} : filters[other] = Absent

\* C1: with only tags set to a non-empty list, matchesFilter is true iff every
\* listed tag is, case-insensitively, one of the item's tags (AND semantics)
C1_TagsAllRequired ==
    (pc = "matched" /\ file # null /\ OnlyField("tags") /\ NonEmptyList(filters.tags))
    => ( matchResult <=>
         \A t \in ListedNames(filters.tags) :
             \E i \in 1..Len(file.tags) : CIEqual(t, file.tags[i]) )

\* an item with tags X and y matched by the string "Y, x"
C1_Witness ==
    /\ pc = "matched" /\ file # null /\ OnlyField("tags")
    /\ filters.tags = StrVal(<<"Y",","," ","x">>)
    /\ Len(file.tags) = 2
    /\ matchResult

\* C2: with only folders set to a non-empty list, matchesFilter is true iff at
\* least one listed folder is, case-insensitively, one of the item's folders
C2_FoldersAnyRequired ==
    (pc = "matched" /\ file # null /\ OnlyField("folders") /\ NonEmptyList(filters.folders))
    => ( matchResult <=>
         \E t \in ListedNames(filters.folders) :
             \E i \in 1..Len(file.folders) : CIEqual(t, file.folders[i]) )

\* an item in folders k and Q matched by "k ,z": one listed folder is enough
C2_Witness ==
    /\ pc = "matched" /\ file # null /\ OnlyField("folders")
    /\ filters.folders = StrVal(<<"k"," ",",","z">>)
    /\ Len(file.folders) = 2
    /\ matchResult

\* C3: with only a non-empty keyword set, matchesFilter is true iff the keyword
\* is a case-insensitive substring of the name, of a tag, or of the serialized
\* metadata
C3_KeywordAnyField ==
    (pc = "matched" /\ file # null /\ OnlyField("keyword") /\ Truthy(filters.keyword))
    => ( matchResult <=>
         \/ CIContains(file.name, filters.keyword.s)
         \/ \E i \in 1..Len(file.tags) : CIContains(file.tags[i], filters.keyword.s)
         \/ CIContains(JSONstringify(file.metadata), filters.keyword.s) )

\* keyword q matches through the metadata alone (folder Q), not the name or a tag
C3_Witness ==
    /\ pc = "matched" /\ file # null /\ OnlyField("keyword")
    /\ filters.keyword = StrVal(<<"q">>)
    /\ ~CIContains(file.name, filters.keyword.s)
    /\ \A i \in 1..Len(file.tags) : ~CIContains(file.tags[i], filters.keyword.s)
    /\ matchResult

\* lower-cased and given a leading dot
NormalizedExt(e) ==
    IF Len(e) > 0 /\ e[1] = "." THEN [i \in 1..Len(e) |-> LowerChar(e[i])]
    ELSE <<".">> \o [i \in 1..Len(e) |-> LowerChar(e[i])]

\* C4: with only ext set, matchesFilter is true iff filter value and item
\* extension are equal after BOTH are lower-cased and given a leading dot
C4_ExtBothSidesNormalized ==
    (pc = "matched" /\ file # null /\ OnlyField("ext") /\ Truthy(filters.ext))
    => ( matchResult <=> NormalizedExt(filters.ext.s) = NormalizedExt(file.ext) )

\* the filter restricted to its field k
Only(k) == [NoFilters EXCEPT ![k] = filters[k]]

\* C5: an absent field imposes no constraint (all absent: true; the result is
\* the conjunction of what each present field alone gives), and an item without
\* tags (folders) never matches a non-empty tags (folders) list
C5_AbsentFieldsUnconstrained ==
    (pc = "matched" /\ file # null)
    => /\ filters = NoFilters => matchResult
       /\ matchResult <=>
            \A k \in {"keyword", "ext", "tags", "folders"} :
                filters[k] # Absent => matchesFilter(file, Only(k))
       /\ (Len(file.tags) = 0 /\ NonEmptyList(filters.tags)) => ~matchResult
       /\ (Len(file.folders) = 0 /\ NonEmptyList(filters.folders)) => ~matchResult

\* an item matched by a filter with keyword and tags present, ext and folders absent
C5_Witness ==
    /\ pc = "matched" /\ file # null
    /\ filters.ext = Absent /\ filters.folders = Absent
    /\ Truthy(filters.keyword) /\ NonEmptyList(filters.tags)
    /\ matchResult

-----------------------------------------------------------------------------
(* sortFiles                                                               *)

K_name == <<"n","a","m","e">>

K_name_asc == <<"n","a","m","e","_","a","s","c">>

K_name_desc == <<"n","a","m","e","_","d","e","s","c">>

K_created == <<"c","r","e","a","t","e","d">>

K_created_asc == <<"c","r","e","a","t","e","d","_","a","s","c">>

K_created_desc == <<"c","r","e","a","t","e","d","_","d","e","s","c">>

K_modified == <<"m","o","d","i","f","i","e","d">>

K_modified_asc == <<"m","o","d","i","f","i","e","d","_","a","s","c">>

K_modified_desc == <<"m","o","d","i","f","i","e","d","_","d","e","s","c">>

K_size == <<"s","i","z","e">>

K_size_asc == <<"s","i","z","e","_","a","s","c">>

K_size_desc == <<"s","i","z","e","_","d","e","s","c">>

K_random == <<"r","a","n","d","o","m">>

\* the case labels of the switch in sortFiles
OrderKeys ==
    { K_name, K_name_asc, K_name_desc,
      K_created, K_created_asc, K_created_desc,
      K_modified, K_modified_asc, K_modified_desc,
      K_size, K_size_asc, K_size_desc }

\* String.prototype.localeCompare for the characters of the model: the strings
\* are compared by the collation weights of their characters, where a letter
\* weighs the same in both cases and blank < '_' < '-' < ',' < '.' < digits <
\* letters; strings equal in weights are ordered by the first character that
\* differs in case, lower case first
CollationOrder == <<" ", "_", "-", ",", ".">> \o DigitChars \o LowerCaseChars

collationWeight(c) ==
    CHOOSE i \in 1..Len(CollationOrder) : CollationOrder[i] = LowerChar(c)

localeCompare(a, b) ==
    LET n == IF Len(a) < Len(b) THEN Len(a) ELSE Len(b)
        diffW == {i \in 1..n : collationWeight(a[i]) # collationWeight(b[i])}
        diffC == {i \in 1..n : a[i] # b[i]}
        first(I) == CHOOSE i \in I : \A j \in I : i <= j
    IN  IF diffW # {}
        THEN (IF collationWeight(a[first(diffW)]) < collationWeight(b[first(diffW)])
              THEN -1 ELSE 1)
        ELSE IF Len(a) # Len(b) THEN (IF Len(a) < Len(b) THEN -1 ELSE 1)
        ELSE IF diffC # {} THEN (IF IsUpper(a[first(diffC)]) THEN 1 ELSE -1)
        ELSE 0

\* mutant: size_desc compares like size_asc
compareFnSizeDescAscending(order, a, b) ==
    IF order \in {K_name, K_name_asc} THEN localeCompare(a.name, b.name)
    ELSE IF order = K_name_desc THEN localeCompare(b.name, a.name)
    ELSE IF order \in {K_created, K_created_asc}
         THEN dateValue(a.created) - dateValue(b.created)
    ELSE IF order = K_created_desc THEN dateValue(b.created) - dateValue(a.created)
    ELSE IF order \in {K_modified, K_modified_asc}
         THEN dateValue(a.modified) - dateValue(b.modified)
    ELSE IF order = K_modified_desc THEN dateValue(b.modified) - dateValue(a.modified)
    ELSE a.size - b.size

\* the comparator the switch hands to Array.prototype.sort for a case label
compareFn(order, a, b) ==
    IF order \in {K_name, K_name_asc} THEN localeCompare(a.name, b.name)
    ELSE IF order = K_name_desc THEN localeCompare(b.name, a.name)
    ELSE IF order \in {K_created, K_created_asc}
         THEN dateValue(a.created) - dateValue(b.created)
    ELSE IF order = K_created_desc THEN dateValue(b.created) - dateValue(a.created)
    ELSE IF order \in {K_modified, K_modified_asc}
         THEN dateValue(a.modified) - dateValue(b.modified)
    ELSE IF order = K_modified_desc THEN dateValue(b.modified) - dateValue(a.modified)
    ELSE IF order \in {K_size, K_size_asc} THEN a.size - b.size
    ELSE b.size - a.size

\* one insertion of Array.prototype.sort (a stable sort): x goes behind every
\* element that does not compare greater than it
insertSorted(sorted, x, order) ==
    LET p == CHOOSE q \in 0..Len(sorted) :
                 /\ \A i \in 1..q : compareFn(order, sorted[i], x) <= 0
                 /\ q < Len(sorted) => compareFn(order, sorted[q + 1], x) > 0
    IN  SubSeq(sorted, 1, p) \o <<x>> \o SubSeq(sorted, p + 1, Len(sorted))

RECURSIVE arraySort(_, _)
\* files.sort(compareFn)
arraySort(a, order) ==
    IF Len(a) <= 1 THEN a
    ELSE insertSorted(arraySort(SubSeq(a, 1, Len(a) - 1), order), a[Len(a)], order)

swap(a, i, j) == [a EXCEPT ![i] = a[j], ![j] = a[i]]

RECURSIVE shuffleFrom(_, _)
\* the shuffle loop from index i down: every array it can leave behind, j being
\* Math.floor(Math.random() * (i + 1)) (indices here count from 1)
shuffleFrom(a, i) ==
    IF i < 2 THEN {a}
    ELSE UNION { shuffleFrom(swap(a, i, j), i - 1) : j \in 1..i }

shuffle(a) == shuffleFrom(a, Len(a))

\* the default branch of the switch: plugin.js sorts by created, newest first;
\* part_000 shuffles
defaultOrder(a) ==
    IF variant = "dir" THEN {arraySort(a, K_created_desc)} ELSE shuffle(a)

\* sortFiles: every array it can return for the array a and the orderBy value ob
sortFiles(a, ob) ==
    IF ~Truthy(ob) \/ toLowerCase(ob.s) = K_random THEN shuffle(a)
    ELSE LET order == toLowerCase(ob.s)
         IN  IF order \in OrderKeys THEN {arraySort(a, order)}
             ELSE defaultOrder(a)

-----------------------------------------------------------------------------
(* SpecSort: one call of sortFiles                                         *)

\* mutant: the whole file object is pushed
listRecordWholeFile(f) == f

\* the record getFileList keeps of a loaded file
listRecord(f) ==
    [ id |-> f.id, name |-> f.name, type |-> f.type, size |-> f.size,
      created |-> f.created, modified |-> f.modified, tags |-> f.tags,
      folders |-> f.folders, ext |-> f.ext, width |-> f.width, height |-> f.height ]

Range(a) == {a[i] : i \in 1..Len(a)}

SortItems ==
    { listRecord(loadFileById(SampleImages, id)) :
        id \in {i \in Range(getAllFileIds(SampleImages)) :
                    loadFileById(SampleImages, i) # null} }

MaxSortLen == 3

\* the arrays of at most n distinct elements of S
ArraysOf(S, n) ==
    UNION { {a \in [1..k -> S] : \A i, j \in 1..k : a[i] = a[j] => i = j} : k \in 0..n }

OrderByValues ==
    { Absent, StrVal(<<>>), StrVal(K_random), StrVal(<<"R","a","n","d","o","m">>),
      StrVal(<<"n","e","w","e","s","t">>), StrVal(<<"S","i","z","e","_","D","e","s","c">>) }
    \cup { StrVal(k) : k \in OrderKeys }

InitSort ==
    /\ variant \in {"dir", "api"}
    /\ pc = "call"
    /\ files \in ArraysOf(SortItems, MaxSortLen)
    /\ given = files
    /\ orderBy \in OrderByValues
    /\ sortedFiles = <<>>
    /\ filters = NoFilters
    /\ IdleMatch
    /\ IdleList
    /\ IdleServer

\* sortFiles(files, orderBy): the array is sorted in place and returned
CallSortFiles ==
    /\ pc = "call"
    /\ \E result \in sortFiles(files, orderBy) :
          /\ sortedFiles' = result
          /\ files' = result
    /\ pc' = "sorted"
    /\ UNCHANGED <<variant, file, filters, matchResult, given, orderBy,
                   images, fileIds, loaded, response>>
    /\ UNCHANGED serverVars

NextSort == CallSortFiles

SpecSort == InitSort /\ [][NextSort]_vars

-----------------------------------------------------------------------------
(* What the sort claims speak of                                           *)

Count(a, x) == Cardinality({i \in 1..Len(a) : a[i] = x})

\* b holds exactly the elements of a: none lost, none duplicated
IsPermutation(a, b) ==
    /\ Len(a) = Len(b)
    /\ \A x \in Range(a) \cup Range(b) : Count(a, x) = Count(b, x)

\* every arrangement of the elements of a
Arrangements(a) ==
    { [i \in 1..Len(a) |-> a[f[i]]] :
        f \in {g \in [1..Len(a) -> 1..Len(a)] : \A i, j \in 1..Len(a) : g[i] = g[j] => i = j} }

\* ob names the key k, in any letter case
Names(ob, k) == ob.kind = "str" /\ CIEqual(ob.s, k)

Recognised(ob) == \E k \in OrderKeys : Names(ob, k)

\* a may stand before b in the order ob asks for
InOrder(ob, a, b) ==
    /\ (Names(ob, K_name) \/ Names(ob, K_name_asc)) => localeCompare(a.name, b.name) <= 0
    /\ Names(ob, K_name_desc) => localeCompare(a.name, b.name) >= 0
    /\ (Names(ob, K_created) \/ Names(ob, K_created_asc))
           => dateValue(a.created) <= dateValue(b.created)
    /\ Names(ob, K_created_desc) => dateValue(a.created) >= dateValue(b.created)
    /\ (Names(ob, K_modified) \/ Names(ob, K_modified_asc))
           => dateValue(a.modified) <= dateValue(b.modified)
    /\ Names(ob, K_modified_desc) => dateValue(a.modified) >= dateValue(b.modified)
    /\ (Names(ob, K_size) \/ Names(ob, K_size_asc)) => a.size <= b.size
    /\ Names(ob, K_size_desc) => a.size >= b.size

\* C6: for a recognised orderBy key sortFiles returns the given items ordered by
\* that key in that direction (names in localeCompare's collation order)
C6_SortedByKey ==
    (pc = "sorted" /\ Recognised(orderBy))
    => /\ IsPermutation(sortedFiles, given)
       /\ \A i \in 1..(Len(sortedFiles) - 1) :
              InOrder(orderBy, sortedFiles[i], sortedFiles[i + 1])

\* three items given in ascending size come back in descending size
C6_Witness ==
    /\ pc = "sorted" /\ orderBy = StrVal(K_size_desc)
    /\ Len(given) = 3
    /\ given[1].size < given[2].size /\ given[2].size < given[3].size
    /\ sortedFiles[1].size > sortedFiles[2].size /\ sortedFiles[2].size > sortedFiles[3].size

\* C7: when orderBy is unset, 'random' or unrecognised, the result is a
\* permutation of the input and every permutation of the input is a possible
\* result
C7_UnrecognisedIsRandom ==
    (pc = "sorted" /\ ~Recognised(orderBy))
    => /\ IsPermutation(sortedFiles, given)
       /\ sortFiles(given, orderBy) = Arrangements(given)

-----------------------------------------------------------------------------
(* getFileList: pagination                                                 *)

\* parseInt(v): <<>> is NaN, <<n>> the integer n.  Leading blanks are skipped, a
\* sign is read, then the longest run of decimal digits; anything behind it is
\* ignored; null, "" and a string without leading digits give NaN
parseInt(v) ==
    IF v.kind # "str" THEN <<>>
    ELSE LET t        == trimStart(v.s)
             negative == Len(t) > 0 /\ t[1] = "-"
             signed   == Len(t) > 0 /\ (t[1] = "-" \/ t[1] = "+")
             body     == IF signed THEN Tail(t) ELSE t
             n        == CHOOSE k \in 0..Len(body) :
                             /\ \A i \in 1..k : IsDigit(body[i])
                             /\ k < Len(body) => ~IsDigit(body[k + 1])
         IN  IF n = 0 THEN <<>>
             ELSE IF negative THEN <<0 - parseDigits(SubSeq(body, 1, n))>>
             ELSE <<parseDigits(SubSeq(body, 1, n))>>

DefaultLimit == 100

DefaultOffset == 0

\* parseInt(v) || dflt: NaN and 0 are falsy
parseIntOr(v, dflt) ==
    IF parseInt(v) = <<>> \/ parseInt(v) = <<0>> THEN dflt ELSE parseInt(v)[1]

\* Array.prototype.slice(start, stop): a negative index counts from the end
sliceIndex(k, len) ==
    IF k < 0 THEN (IF len + k < 0 THEN 0 ELSE len + k)
    ELSE (IF k > len THEN len ELSE k)

slice(a, start, stop) ==
    SubSeq(a, sliceIndex(start, Len(a)) + 1, sliceIndex(stop, Len(a)))

\* mutant: the page is cut before the sort
getFileListResultsCutThenSort(matching, flt) ==
    LET limit  == parseIntOr(flt.limit, DefaultLimit)
        offset == parseIntOr(flt.offset, DefaultOffset)
    IN  { [ status |-> 200,
            files  |-> page,
            total  |-> Len(matching),
            limit  |-> limit,
            offset |-> offset,
            sorted |-> page ] :
          page \in sortFiles(slice(matching, offset, offset + limit), flt.orderBy) }

\* getFileList after the loading loop, and handleGetList's answer: every
\* result possible for the array matching of filtered records (sorted is the
\* local sortedFiles)
\* the array a itself
sameArray(a) == [array |-> a, fresh |-> FALSE]

\* [...files]: a new array with the items of files, in their order
spread(a) == [array |-> a, fresh |-> TRUE]

\* the caller's array a once sortFiles has reordered the array arg in place
\* into result: untouched when arg is a new array, reordered when it is a
afterSort(a, arg, result) == IF arg.fresh THEN a ELSE result

getFileListResults(matching, flt) ==
    LET limit  == parseIntOr(flt.limit, DefaultLimit)
        offset == parseIntOr(flt.offset, DefaultOffset)
    IN  { [ status |-> 200,
            files  |-> slice(sortedCopy, offset, offset + limit),
            total  |-> Len(sortedCopy),
            limit  |-> limit,
            offset |-> offset,
            sorted |-> sortedCopy ] :
          sortedCopy \in sortFiles(matching, flt.orderBy) }

-----------------------------------------------------------------------------
(* The catalog variant: items come from the Eagle application               *)

\* The Eagle application is an external collaborator.  Its catalog is taken to
\* hold one item for every directory of images whose metadata.json it can
\* read; an item carries the fields of that metadata and the location of the
\* payload.  dateCreated = 0 and dateModified = 0 stand for "no such field".
eagleItem(dir) ==
    [ id           |-> removeFirst(dir.name, DotInfo),
      name         |-> MemberStr(dir.metadata, "name"),
      ext          |-> MemberStr(dir.metadata, "ext"),
      tags         |-> MemberArr(dir.metadata, "tags"),
      folders      |-> MemberArr(dir.metadata, "folders"),
      size         |-> IF mainFileOf(dir) = <<>> THEN 0 ELSE mainFileOf(dir)[1].size,
      width        |-> MemberNum(dir.metadata, "width", 0),
      height       |-> MemberNum(dir.metadata, "height", 0),
      dateCreated  |-> 0,
      dateModified |-> 0,
      filePath     |-> IF mainFileOf(dir) = <<>>
                       THEN <<dir.name, MemberStr(dir.metadata, "name")>>
                       ELSE <<dir.name, mainFileOf(dir)[1].name>> ]

\* every item of the catalog, in catalog order
catalogItems(img) ==
    LET Readable(d) == endsWith(d.name, DotInfo) /\ d.meta = "ok"
        dirs == IF img.exists THEN SelectSeq(img.dirs, Readable) ELSE <<>>
    IN  [i \in 1..Len(dirs) |-> eagleItem(dirs[i])]

\* the elements of a at the indices in I, in the order of a
SubArray(a, I) ==
    LET F[k \in 0..Len(a)] ==
            IF k = 0 THEN <<>>
            ELSE IF k \in I THEN Append(F[k - 1], a[k]) ELSE F[k - 1]
    IN  F[Len(a)]

EmptyQuery == [keywords |-> <<>>, tags |-> <<>>, folders |-> <<>>, ext |-> <<>>]

\* eagle.item.get(query), when it answers: every item for the empty query;
\* for any other query the items Eagle finds matching, which the plugin does
\* not decide: any selection of the catalog
eagleItemGet(img, query) ==
    IF query = EmptyQuery THEN {catalogItems(img)}
    ELSE { SubArray(catalogItems(img), I) : I \in SUBSET (1..Len(catalogItems(img))) }

\* eagle.item.getById(fileId), when it answers: the item, or null
eagleItemGetById(img, fileId) ==
    LET items == catalogItems(img)
    IN  IF \E i \in 1..Len(items) : items[i].id = fileId
        THEN items[CHOOSE i \in 1..Len(items) : items[i].id = fileId]
        ELSE null

\* a.filter(t => t)
nonEmpty(a) == SelectSeq(a, LAMBDA t : Len(t) > 0)

\* the extensions getAllItems queries one by one, without their leading dot
queryExtensions(flt) ==
    IF Truthy(flt.ext) /\ Len(trim(flt.ext.s)) > 0
    THEN LET parts == nonEmpty(trimAll(splitComma(trim(flt.ext.s))))
         IN  [i \in 1..Len(parts) |->
                 IF startsWith(parts[i], <<".">>) THEN Tail(parts[i]) ELSE parts[i]]
    ELSE <<>>

\* tags / folders of the query: the array given, or the trimmed non-empty
\* parts of the comma-separated string
queryList(v) ==
    IF ~Truthy(v) THEN <<>>
    ELSE IF v.kind = "arr" THEN v.a
    ELSE nonEmpty(trimAll(splitComma(v.s)))

baseQuery(flt) ==
    [ keywords |-> IF Truthy(flt.keyword) /\ Len(trim(flt.keyword.s)) > 0
                   THEN <<trim(flt.keyword.s)>> ELSE <<>>,
      tags     |-> queryList(flt.tags),
      folders  |-> queryList(flt.folders),
      ext      |-> <<>> ]

\* the items of more whose id is not yet in all
unseen(all, more) ==
    SubArray(more, {i \in 1..Len(more) :
                       /\ \A j \in 1..Len(all) : all[j].id # more[i].id
                       /\ \A j \in 1..(i - 1) : more[j].id # more[i].id})

RECURSIVE combineExtensions(_, _, _, _)
\* the loop over the extensions: one query each, duplicates dropped by id
combineExtensions(img, query, exts, allItems) ==
    IF exts = <<>> THEN {allItems}
    ELSE UNION { combineExtensions(img, query, Tail(exts), allItems \o unseen(allItems, items)) :
                   items \in eagleItemGet(img, [query EXCEPT !.ext = Head(exts)]) }

\* getAllItems(filters): every array it can return; apiOk is FALSE when the
\* Eagle API throws or rejects, which the catch turns into []
getAllItems(img, flt, apiOk) ==
    IF ~apiOk THEN {<<>>}
    ELSE IF queryExtensions(flt) = <<>> THEN eagleItemGet(img, baseQuery(flt))
    ELSE combineExtensions(img, baseQuery(flt), queryExtensions(flt), <<>>)

\* convertEagleItemToFile(item); now is the clock reading of new Date()
convertEagleItemToFile(item, configured, now) ==
    IF item = null THEN null
    ELSE LET ext      == toLowerCase(item.ext)
             fileName == item.name
             filePath == IF Len(item.filePath) > 0 THEN item.filePath
                         ELSE IF configured THEN <<item.id \o DotInfo, fileName>>
                         ELSE <<>>
         IN  [ id       |-> item.id,
               name     |-> fileName,
               path     |-> filePath,
               type     |-> getFileType(ext),
               size     |-> item.size,
               created  |-> toISOString(IF item.dateCreated # 0 THEN item.dateCreated ELSE now),
               modified |-> toISOString(IF item.dateModified # 0 THEN item.dateModified ELSE now),
               tags     |-> item.tags,
               folders  |-> item.folders,
               ext      |-> ext,
               width    |-> IF item.width = 0 THEN NoNumber ELSE <<item.width>>,
               height   |-> IF item.height = 0 THEN NoNumber ELSE <<item.height>>,
               metadata |-> item ]

\* loadFileById of part_000: the converted item, or null when there is none
\* or the Eagle API failed
loadFileByIdApi(img, fileId, configured, apiOk, now) ==
    IF ~apiOk THEN null
    ELSE convertEagleItemToFile(eagleItemGetById(img, fileId), configured, now)

\* the readings of the clock
Clock == {7}

-----------------------------------------------------------------------------
(* The createServer callback: CORS headers and routing                     *)

RECURSIVE split(_, _)
\* String.prototype.split(sep) for a one-character separator
split(s, sep) ==
    IF \E i \in 1..Len(s) : s[i] = sep
    THEN LET i == CHOOSE j \in 1..Len(s) : s[j] = sep /\ \A k \in 1..(j - 1) : s[k] # sep
         IN  <<SubSeq(s, 1, i - 1)>> \o split(SubSeq(s, i + 1, Len(s)), sep)
    ELSE <<s>>

\* mutant: only the origin header is set
corsHeadersOriginOnly(r) ==
    IF enableCORS THEN setHeader(r, "Access-Control-Allow-Origin", "*") ELSE r

\* the three CORS headers set before anything else
corsHeaders(r) ==
    IF enableCORS
    THEN setHeader(setHeader(setHeader(r, "Access-Control-Allow-Origin", "*"),
                             "Access-Control-Allow-Methods", "GET, OPTIONS"),
                   "Access-Control-Allow-Headers", "Content-Type")
    ELSE r

PathGetList == <<"/","g","e","t","L","i","s","t">>

PathGetRandom == <<"/","g","e","t","R","a","n","d","o","m">>

PathGetRandomMedia == <<"/","g","e","t","R","a","n","d","o","m","M","e","d","i","a">>

PathFiles == <<"/","f","i","l","e","s","/">>

\* pathname.startsWith('/files/') && pathname.split('/').length > 2
isFileRoute(pathname) ==
    startsWith(pathname, PathFiles) /\ Len(split(pathname, "/")) > 2

\* pathname.split('/')[2]
fileIdOf(pathname) == split(pathname, "/")[3]

\* pathname === route || pathname === route + '/'
isRoute(pathname, route) == pathname = route \/ pathname = route \o <<"/">>

\* !randomId: null and the empty string are falsy
falsyId(id) == id = NoId \/ id = <<<<>>>>

-----------------------------------------------------------------------------
(* Spec: GET /getList on the directory variant                             *)

MaxLib == 3

LibraryDirs == {DirA, DirB, DirC, DirNoPayload}

Libraries == { [exists |-> TRUE, dirs |-> d] : d \in ArraysOf(LibraryDirs, MaxLib) }

LimitValues ==
    { Absent, StrVal(<<"0">>), StrVal(<<"1">>), StrVal(<<"-","1">>), StrVal(<<"1","x">>),
      StrVal(<<"a","b","c">>) }

OffsetValues ==
    { Absent, StrVal(<<"0">>), StrVal(<<"1">>), StrVal(<<"-","1">>), StrVal(<<"z">>) }

ListFilters ==
    [ keyword : {Absent}, ext : {Absent}, folders : {Absent},
      tags    : {Absent, StrVal(<<"x">>), StrVal(<<"y">>)},
      orderBy : {Absent, StrVal(K_size_asc), StrVal(K_name_desc), StrVal(<<"n","e","w","e","s","t">>)},
      limit   : LimitValues,
      offset  : OffsetValues ]

\* a GET /getList request has been routed to handleGetList
Init ==
    /\ variant = "dir"
    /\ pc = "start"
    /\ images \in Libraries
    /\ filters \in ListFilters
    /\ fileIds = <<>>
    /\ loaded = <<>>
    /\ response = null
    /\ orderBy = Absent
    /\ IdleMatch
    /\ IdleSort
    /\ eagleDataPath = TRUE
    /\ req = [method |-> "GET", pathname |-> PathGetList, fileId |-> <<>>]
    /\ res = corsHeaders(FreshResponse)
    /\ stream = NoStream
    /\ matchingIds = <<>>
    /\ randomId = NoId
    /\ calls = <<>>
    /\ served = 1
    /\ deleted = {}
    /\ providerFailed = FALSE
    /\ ServingLife

\* const fileIds = await this.getAllFileIds()
\* (without eagleDataPath path.join throws and the catch returns [])
GetListEnumerate ==
    /\ pc = "start"
    /\ variant = "dir"
    /\ fileIds' = IF eagleDataPath THEN getAllFileIds(images) ELSE <<>>
    /\ pc' = "loading"
    /\ UNCHANGED <<variant, file, filters, matchResult, files, given, orderBy,
                   sortedFiles, images, loaded, response>>
    /\ UNCHANGED serverVars

\* one turn of the loop: load the next id, keep its record when it resolves and
\* matches
GetListLoad ==
    /\ pc = "loading"
    /\ fileIds # <<>>
    /\ LET f == loadFileById(images, Head(fileIds))
       IN  loaded' = IF f # null /\ matchesFilter(f, filters)
                     THEN Append(loaded, listRecord(f))
                     ELSE loaded
    /\ fileIds' = Tail(fileIds)
    /\ calls' = Append(calls, <<"loadFileById", Head(fileIds)>>)
    /\ UNCHANGED <<variant, pc, file, filters, matchResult, files, given, orderBy,
                   sortedFiles, images, response>>
    /\ UNCHANGED <<eagleDataPath, req, res, stream, matchingIds, randomId, served, deleted, providerFailed, lifeVars>>

\* after the loop: sort a copy, cut the page, answer 200
GetListRespond ==
    /\ pc = "loading"
    /\ fileIds = <<>>
    /\ \E r \in getFileListResults(loaded, filters) :
          /\ given' = spread(loaded).array
          /\ files' = r.sorted
          /\ loaded' = afterSort(loaded, spread(loaded), r.sorted)
          /\ response' = [status |-> r.status, files |-> r.files, total |-> r.total,
                          limit |-> r.limit, offset |-> r.offset]
          /\ sortedFiles' = r.sorted
          /\ res' = sendJSON(res, r.status,
                             JsonData([files |-> r.files, total |-> r.total,
                                       limit |-> r.limit, offset |-> r.offset]))
    /\ pc' = "done"
    /\ UNCHANGED <<variant, file, filters, matchResult, orderBy, images, fileIds>>
    /\ UNCHANGED <<eagleDataPath, req, stream, matchingIds, randomId, calls, served, deleted, providerFailed, lifeVars>>

Next == GetListEnumerate \/ GetListLoad \/ GetListRespond

Spec == Init /\ [][Next]_vars

-----------------------------------------------------------------------------
(* Claims about getFileList                                                *)

\* v is written as a non-negative integer: one or more decimal digits, nothing else
ValidNonNegativeInteger(v) ==
    v.kind = "str" /\ Len(v.s) > 0 /\ \A i \in 1..Len(v.s) : IsDigit(v.s[i])

\* the value the query parameter v stands for, dflt when it is absent or not a
\* valid non-negative integer
EffectiveValue(v, dflt) ==
    IF ValidNonNegativeInteger(v) THEN parseDigits(v.s) ELSE dflt

\* C8: the effective limit is the supplied value when it is a valid
\* non-negative integer (0 included) and 100 otherwise; the effective offset is
\* the supplied value when it is a valid non-negative integer and 0 otherwise;
\* /getList answers without an error
C8_EffectiveLimitOffset ==
    pc = "done"
    => /\ response.status = 200
       /\ response.limit = EffectiveValue(filters.limit, 100)
       /\ response.offset = EffectiveValue(filters.offset, 0)

\* the items of S at the positions O, O+1, ..., O+L-1, counted from 0
Segment(S, O, L) ==
    SubSeq(S, (IF O < 0 THEN 0 ELSE O) + 1, IF O + L > Len(S) THEN Len(S) ELSE O + L)

\* C9: the returned files are exactly the slice S[O .. O+L) of the
\* filtered-and-sorted list S, never more than L items, and total = |S|
C9_PageIsSlice ==
    pc = "done"
    => /\ response.files = Segment(sortedFiles, response.offset, response.limit)
       /\ Len(response.files) <= (IF response.limit < 0 THEN 0 ELSE response.limit)
       /\ response.total = Len(sortedFiles)

\* the list records of the library items that resolve and satisfy the filter
MatchingItems ==
    { listRecord(loadFileById(images, id)) :
        id \in { i \in Range(getAllFileIds(images)) :
                   /\ loadFileById(images, i) # null
                   /\ matchesFilter(loadFileById(images, i), filters) } }

\* every way to line up the elements of the set M
OrderingsOf(M) == { a \in ArraysOf(M, Cardinality(M)) : Len(a) = Cardinality(M) }

\* the scenario: items A (size 10, tags x), B (size 20, tags x and y) and
\* C (size 5, tags y), asked for tags=x ordered by size_asc
ScenarioABC ==
    /\ Len(images.dirs) = 3
    /\ Range(images.dirs) = {DirA, DirB, DirC}
    /\ filters.tags = StrVal(<<"x">>)
    /\ filters.orderBy = StrVal(K_size_asc)
    /\ filters.limit = Absent /\ filters.offset = Absent

\* C10: filter, then sort, then pagination: total is the number of library
\* items that satisfy the filter, and the returned files are the page cut from
\* all the matching items lined up in the order orderBy asks for; in the
\* scenario the answer is [A, B] with total 2
C10_FilterSortPaginate ==
    pc = "done"
    => /\ response.total = Cardinality(MatchingItems)
       /\ \E T \in OrderingsOf(MatchingItems) :
             /\ Recognised(filters.orderBy)
                   => \A i, j \in 1..Len(T) : i < j => InOrder(filters.orderBy, T[i], T[j])
             /\ response.files = slice(T, response.offset, response.offset + response.limit)
       /\ ScenarioABC
             => /\ response.total = 2
                /\ [i \in 1..Len(response.files) |-> response.files[i].id] = << <<"A">>, <<"B">> >>

\* the scenario with C first in the library, answered [A, B] and total 2: C is
\* filtered out before the count, and B, loaded before A, is sorted behind it
C10_Witness ==
    /\ pc = "done"
    /\ images.dirs = <<DirC, DirB, DirA>>
    /\ ScenarioABC
    /\ response.total = 2
    /\ Len(response.files) = 2
    /\ response.files[1].id = <<"A">> /\ response.files[1].size = 10
    /\ response.files[2].id = <<"B">> /\ response.files[2].size = 20

-----------------------------------------------------------------------------
(* SpecServer: the HTTP server of both variants, one request after another, *)
(* while the Eagle application removes items from the library               *)

MaxRequests == 2

MaxDeletes == 1

\* the number of chunks a payload is read in
PayloadChunks == 2

MaxServerLib == 2

ServerDirs == {DirA, DirB, DirNoPayload}

ServerLibraries ==
    { [exists |-> TRUE, dirs |-> d] : d \in ArraysOf(ServerDirs, MaxServerLib) }

Methods == {"GET", "OPTIONS"}

Pathnames ==
    { <<"/">>, PathGetList, PathGetRandom, PathGetRandomMedia \o <<"/">>,
      PathFiles \o <<"A">>, PathFiles \o <<"P">>, PathFiles \o <<"Z">> }

\* the query strings: tags=x or tags=zz or none, folders=nonexistent or none
ServerFilters ==
    [ keyword : {Absent}, ext : {Absent},
      folders : {Absent, StrVal(<<"n","o","n","e","x","i","s","t","e","n","t">>)},
      tags    : {Absent, StrVal(<<"x">>), StrVal(<<"z","z">>)},
      orderBy : {Absent}, limit : {Absent}, offset : {Absent} ]

NoQuery ==
    [ keyword |-> Absent, ext |-> Absent, folders |-> Absent, tags |-> Absent,
      orderBy |-> Absent, limit |-> Absent, offset |-> Absent ]

InitServer ==
    /\ variant \in {"dir", "api"}
    /\ pc = "idle"
    /\ images \in ServerLibraries
    /\ filters = NoQuery
    /\ fileIds = <<>>
    /\ loaded = <<>>
    /\ response = null
    /\ IdleMatch
    /\ IdleSort
    /\ eagleDataPath \in BOOLEAN
    /\ req = null
    /\ res = null
    /\ stream = NoStream
    /\ matchingIds = <<>>
    /\ randomId = NoId
    /\ calls = <<>>
    /\ served = 0
    /\ deleted = {}
    /\ providerFailed = FALSE
    /\ ServingLife

\* nothing more will happen to the request: it was answered, or its stream
\* broke or was let go of by pipe with nothing left to open
Settled ==
    \/ pc \in {"idle", "done"}
    \/ pc = "streaming" /\ stream.phase = "errored"
    \/ pc = "streaming" /\ ~stream.piped /\ stream.phase # "opening"

\* a request arrives: the callback gets a fresh response and sets the CORS
\* headers; the locals of the previous request are gone
Accept(method, pathname, fileId, flt) ==
    /\ Settled
    /\ served < MaxRequests
    /\ served' = served + 1
    /\ req' = [method |-> method, pathname |-> pathname, fileId |-> fileId]
    /\ filters' = flt
    /\ stream' = NoStream
    /\ matchingIds' = <<>>
    /\ randomId' = NoId
    /\ calls' = <<>>
    /\ deleted' = {}
    /\ providerFailed' = FALSE
    /\ fileIds' = <<>>
    /\ loaded' = <<>>
    /\ response' = null
    /\ file' = null
    /\ sortedFiles' = <<>>
    /\ files' = <<>>
    /\ given' = <<>>
    /\ UNCHANGED <<variant, matchResult, orderBy, images, eagleDataPath, lifeVars>>

\* mutant: no request is taken for a preflight
isPreflightNever(method) == FALSE

\* if (req.method === 'OPTIONS')
isPreflight(method) == method = "OPTIONS"

\* req.method === 'OPTIONS': 200 without body, before any routing
Preflight ==
    \E method \in Methods, pathname \in Pathnames :
       /\ isPreflight(method)
       /\ Accept(method, pathname, <<>>, NoQuery)
       /\ res' = end(writeHead(corsHeaders(FreshResponse), 200, {}), NoBody)
       /\ pc' = "done"

\* /files/{id}: handleFileById is entered; part_000 answers 503 without
\* eagleDataPath
RouteFileById ==
    \E method \in Methods, pathname \in Pathnames :
       /\ ~isPreflight(method)
       /\ isFileRoute(pathname)
       /\ Accept(method, pathname, fileIdOf(pathname), NoQuery)
       /\ IF variant = "api" /\ ~eagleDataPath
          THEN /\ res' = sendJSON(corsHeaders(FreshResponse), 503,
                                  JsonError("Library path not configured"))
               /\ pc' = "done"
          ELSE /\ res' = corsHeaders(FreshResponse)
               /\ pc' = "fileById"

\* /getList: handleGetList builds the filters and calls getFileList
RouteGetList ==
    \E method \in Methods, pathname \in Pathnames, flt \in ServerFilters :
       /\ ~isPreflight(method)
       /\ ~isFileRoute(pathname)
       /\ isRoute(pathname, PathGetList)
       /\ Accept(method, pathname, <<>>, flt)
       /\ res' = corsHeaders(FreshResponse)
       /\ pc' = "start"

\* /getRandom: handleGetRandom builds the filters and calls getRandomFile
RouteGetRandom ==
    \E method \in Methods, pathname \in Pathnames, flt \in ServerFilters :
       /\ ~isPreflight(method)
       /\ ~isFileRoute(pathname)
       /\ isRoute(pathname, PathGetRandom)
       /\ Accept(method, pathname, <<>>, flt)
       /\ res' = corsHeaders(FreshResponse)
       /\ pc' = "enumerate"

\* /getRandomMedia: handleGetRandomMedia; part_000 answers 503 without
\* eagleDataPath
RouteGetRandomMedia ==
    \E method \in Methods, pathname \in Pathnames, flt \in ServerFilters :
       /\ ~isPreflight(method)
       /\ ~isFileRoute(pathname)
       /\ isRoute(pathname, PathGetRandomMedia)
       /\ Accept(method, pathname, <<>>, flt)
       /\ IF variant = "api" /\ ~eagleDataPath
          THEN /\ res' = sendJSON(corsHeaders(FreshResponse), 503,
                                  JsonError("Library path not configured"))
               /\ pc' = "done"
          ELSE /\ res' = corsHeaders(FreshResponse)
               /\ pc' = "enumerate"

\* any other pathname: the default response
DefaultResponse ==
    \E method \in Methods, pathname \in Pathnames :
       /\ ~isPreflight(method)
       /\ ~isFileRoute(pathname)
       /\ ~isRoute(pathname, PathGetList)
       /\ ~isRoute(pathname, PathGetRandom)
       /\ ~isRoute(pathname, PathGetRandomMedia)
       /\ Accept(method, pathname, <<>>, NoQuery)
       /\ res' = sendJSON(corsHeaders(FreshResponse), 200, JsonStatus)
       /\ pc' = "done"

\* this.loadFileById(fileId) of the running variant: every value it can
\* return.  plugin.js without eagleDataPath: path.join throws, the catch
\* returns null.  part_000: the Eagle API answers or fails.
fullLookup(fileId) ==
    IF variant = "dir"
    THEN {IF eagleDataPath THEN loadFileById(images, fileId) ELSE null}
    ELSE { loadFileByIdApi(images, fileId, eagleDataPath, apiOk, now) :
             apiOk \in BOOLEAN, now \in Clock }

\* the same with the reason: failed tells that eagle.item.getById threw or
\* rejected and the catch of loadFileById returned null
lookupOutcomes(fileId) ==
    IF variant = "dir"
    THEN { [value |-> f, failed |-> FALSE] : f \in fullLookup(fileId) }
    ELSE { [value  |-> loadFileByIdApi(images, fileId, eagleDataPath, apiOk, now),
            failed |-> ~apiOk] : apiOk \in BOOLEAN, now \in Clock }

\* mutant: the candidates are resolved in full
lightLookupFullResolution(fileId) ==
    [ call  |-> <<"loadFileById", fileId>>,
      value |-> IF eagleDataPath THEN loadFileById(images, fileId) ELSE null ]

\* await this.loadFileMetadata(fileId) in getRandomFileId of plugin.js: the
\* lookup called and the value it returns
lightLookup(fileId) ==
    [ call  |-> <<"loadFileMetadata", fileId>>,
      value |-> IF eagleDataPath THEN loadFileMetadata(images, fileId) ELSE null ]

\* mutant: the payload is streamed without looking for it on disk
startStreamUnchecked ==
    /\ res' = streamHeaders(res, file.path)
    /\ stream' = createReadStream(file.path)
    /\ pc' = "streaming"

\* the part of the handlers from fs.existsSync(filePath) to fileStream.pipe(res)
startStream ==
    IF ~existsSync(images, file.path)
    THEN /\ res' = sendJSON(res, 404, JsonError("File not found on disk"))
         /\ stream' = stream
         /\ pc' = "done"
    ELSE /\ res' = streamHeaders(res, file.path)
         /\ stream' = createReadStream(file.path)
         /\ pc' = "streaming"

\* mutant: the unresolved file is reported as a server error
fileNotFoundAsServerError(r) == sendJSON(r, 500, JsonError("Internal server error"))

\* if (!file): 404 { success: false, error: 'File not found' }
fileNotFound(r) == sendJSON(r, 404, JsonError("File not found"))

\* handleFileById: const file = await this.loadFileById(fileId)
FileByIdResolve ==
    /\ pc = "fileById"
    /\ calls' = Append(calls, <<"loadFileById", req.fileId>>)
    /\ \E o \in lookupOutcomes(req.fileId) :
          /\ providerFailed' = (providerFailed \/ o.failed)
          /\ IF o.value = null
             THEN /\ res' = fileNotFound(res)
                  /\ file' = file
                  /\ pc' = "done"
             ELSE /\ res' = res
                  /\ file' = o.value
                  /\ pc' = "located"
    /\ UNCHANGED <<variant, filters, matchResult, files, given, orderBy, sortedFiles,
                   images, fileIds, loaded, response, eagleDataPath, req, stream,
                   matchingIds, randomId, served, deleted, lifeVars>>

\* handleFileById: the file was resolved, its payload is looked for and streamed
FileByIdStream ==
    /\ pc = "located"
    /\ isFileRoute(req.pathname)
    /\ startStream
    /\ UNCHANGED <<variant, file, filters, matchResult, files, given, orderBy,
                   sortedFiles, images, fileIds, loaded, response, eagleDataPath, req,
                   matchingIds, randomId, calls, served, deleted, providerFailed, lifeVars>>

\* getFileList and handleGetList of part_000: one query of the catalog, then
\* conversion, sort, page and the 200 answer
ApiGetList ==
    /\ pc = "start"
    /\ variant = "api"
    /\ \E apiOk \in BOOLEAN, now \in Clock :
       \E items \in getAllItems(images, filters, apiOk) :
          LET converted == [i \in 1..Len(items) |->
                               convertEagleItemToFile(items[i], eagleDataPath, now)]
          IN  \E r \in getFileListResults(converted, filters) :
                 LET fileInfo == [i \in 1..Len(r.files) |-> listRecord(r.files[i])]
                 IN  /\ providerFailed' = (providerFailed \/ ~apiOk)
                     /\ given' = spread(converted).array
                     /\ files' = r.sorted
                     /\ loaded' = afterSort(converted, spread(converted), r.sorted)
                     /\ sortedFiles' = r.sorted
                     /\ response' = [status |-> r.status, files |-> fileInfo,
                                     total |-> r.total, limit |-> r.limit,
                                     offset |-> r.offset]
                     /\ res' = sendJSON(res, r.status,
                                        JsonData([files |-> fileInfo, total |-> r.total,
                                                  limit |-> r.limit, offset |-> r.offset]))
    /\ pc' = "done"
    /\ UNCHANGED <<variant, file, filters, matchResult, orderBy, images,
                   fileIds, eagleDataPath, req, stream, matchingIds, randomId, calls,
                   served, deleted, lifeVars>>

\* Math.floor(Math.random() * n): any index from 0 to n - 1
randomIndexes(n) == 0..(n - 1)

\* mutant: the first survivor is always taken
getRandomFileIdResultsFirstOnly(ids) ==
    IF Len(ids) = 0 THEN {NoId} ELSE {<<ids[1]>>}

\* the end of getRandomFileId: null without survivors, else one of them
getRandomFileIdResults(ids) ==
    IF Len(ids) = 0 THEN {NoId}
    ELSE { <<ids[randomIndex + 1]>> : randomIndex \in randomIndexes(Len(ids)) }

\* getRandomFileId of plugin.js: const fileIds = await this.getAllFileIds()
RandomEnumerate ==
    /\ pc = "enumerate"
    /\ variant = "dir"
    /\ fileIds' = IF eagleDataPath THEN getAllFileIds(images) ELSE <<>>
    /\ calls' = Append(calls, <<"getRandomFileId", <<>>>>)
    /\ pc' = "filtering"
    /\ UNCHANGED <<variant, file, filters, matchResult, files, given, orderBy,
                   sortedFiles, images, loaded, response, eagleDataPath, req, res,
                   stream, matchingIds, randomId, served, deleted, providerFailed, lifeVars>>

\* one turn of its loop: the lightweight record of the next id is loaded and
\* filtered
RandomLoadMeta ==
    /\ pc = "filtering"
    /\ fileIds # <<>>
    /\ LET fileMeta == lightLookup(Head(fileIds)).value
       IN  matchingIds' = IF fileMeta # null /\ matchesFilter(fileMeta, filters)
                          THEN Append(matchingIds, Head(fileIds))
                          ELSE matchingIds
    /\ fileIds' = Tail(fileIds)
    /\ calls' = Append(calls, lightLookup(Head(fileIds)).call)
    /\ UNCHANGED <<variant, pc, file, filters, matchResult, files, given, orderBy,
                   sortedFiles, images, loaded, response, eagleDataPath, req, res,
                   stream, randomId, served, deleted, providerFailed, lifeVars>>

\* after the loop (part_000: after the query): null, or the id at randomIndex
RandomPick ==
    /\ pc = "filtering"
    /\ fileIds = <<>>
    /\ randomId' \in getRandomFileIdResults(matchingIds)
    /\ pc' = "picked"
    /\ UNCHANGED <<variant, file, filters, matchResult, files, given, orderBy,
                   sortedFiles, images, fileIds, loaded, response, eagleDataPath, req,
                   res, stream, matchingIds, calls, served, deleted, providerFailed, lifeVars>>

\* getRandomFileId of part_000: const items = await this.getAllItems(filters);
\* matchingIds holds the ids of items
ApiRandomQuery ==
    /\ pc = "enumerate"
    /\ variant = "api"
    /\ \E apiOk \in BOOLEAN :
       \E items \in getAllItems(images, filters, apiOk) :
          /\ providerFailed' = (providerFailed \/ ~apiOk)
          /\ matchingIds' = [i \in 1..Len(items) |-> items[i].id]
    /\ calls' = Append(calls, <<"getRandomFileId", <<>>>>)
    /\ pc' = "filtering"
    /\ UNCHANGED <<variant, file, filters, matchResult, files, given, orderBy,
                   sortedFiles, images, fileIds, loaded, response, eagleDataPath, req,
                   res, stream, randomId, served, deleted, lifeVars>>

\* mutant: when the selected item does not resolve, another survivor that
\* resolves is taken
getRandomFileRetries(f) ==
    IF f # null THEN listRecord(f)
    ELSE LET others == SelectSeq(matchingIds, LAMBDA id : loadFileById(images, id) # null)
         IN  IF others = <<>> THEN null
             ELSE listRecord(loadFileById(images, others[1]))

\* what getRandomFile returns for the value f of loadFileById(randomId): null
\* or the file information without the path
getRandomFile(f) ==
    IF f = null THEN null ELSE listRecord(f)

\* getRandomFile after getRandomFileId, and handleGetRandom's answer
RandomFileResolve ==
    /\ pc = "picked"
    /\ isRoute(req.pathname, PathGetRandom)
    /\ IF falsyId(randomId)
       THEN /\ res' = sendJSON(res, 404, JsonError("No matching files found"))
            /\ calls' = calls
            /\ file' = file
            /\ providerFailed' = providerFailed
       ELSE /\ calls' = Append(calls, <<"loadFileById", randomId[1]>>)
            /\ \E o \in lookupOutcomes(randomId[1]) :
                  /\ providerFailed' = (providerFailed \/ o.failed)
                  /\ file' = o.value
                  /\ res' = IF getRandomFile(o.value) = null
                            THEN sendJSON(res, 404, JsonError("No matching files found"))
                            ELSE sendJSON(res, 200, JsonData(getRandomFile(o.value)))
    /\ pc' = "done"
    /\ UNCHANGED <<variant, filters, matchResult, files, given, orderBy, sortedFiles,
                   images, fileIds, loaded, response, eagleDataPath, req, stream,
                   matchingIds, randomId, served, deleted, lifeVars>>

\* handleGetRandomMedia after getRandomFileId: the selected id is resolved
RandomMediaResolve ==
    /\ pc = "picked"
    /\ isRoute(req.pathname, PathGetRandomMedia)
    /\ IF falsyId(randomId)
       THEN /\ res' = sendJSON(res, 404, JsonError("No matching files found"))
            /\ calls' = calls
            /\ file' = file
            /\ providerFailed' = providerFailed
            /\ pc' = "done"
       ELSE /\ calls' = Append(calls, <<"loadFileById", randomId[1]>>)
            /\ \E o \in lookupOutcomes(randomId[1]) :
                  /\ providerFailed' = (providerFailed \/ o.failed)
                  /\ IF o.value = null
                     THEN /\ res' = fileNotFound(res)
                          /\ file' = file
                          /\ pc' = "done"
                     ELSE /\ res' = res
                          /\ file' = o.value
                          /\ pc' = "located"
    /\ UNCHANGED <<variant, filters, matchResult, files, given, orderBy, sortedFiles,
                   images, fileIds, loaded, response, eagleDataPath, req, stream,
                   matchingIds, randomId, served, deleted, lifeVars>>

\* handleGetRandomMedia: the payload of the selected file is looked for and
\* streamed
RandomMediaStream ==
    /\ pc = "located"
    /\ isRoute(req.pathname, PathGetRandomMedia)
    /\ startStream
    /\ UNCHANGED <<variant, file, filters, matchResult, files, given, orderBy,
                   sortedFiles, images, fileIds, loaded, response, eagleDataPath, req,
                   matchingIds, randomId, calls, served, deleted, providerFailed, lifeVars>>

\* fileStream.on('error', ...): the listener of both streaming handlers
onStreamError(r) ==
    IF ~r.headersSent THEN sendJSON(r, 500, JsonError("Error reading file")) ELSE r

\* the stream opens its file: the descriptor is held from now on; or the open
\* fails (always when the payload is gone) and 'error' is emitted
StreamOpen ==
    /\ pc = "streaming"
    /\ stream.phase = "opening"
    /\ \E ok \in BOOLEAN :
          /\ ok => existsSync(images, stream.path)
          /\ IF ok
             THEN /\ stream' = [stream EXCEPT !.phase = "open", !.fd = TRUE]
                  /\ res' = res
                  /\ pc' = pc
             ELSE /\ stream' = [stream EXCEPT !.phase = "errored"]
                  /\ res' = onStreamError(res)
                  /\ pc' = IF onStreamError(res).ends > 0 THEN "done" ELSE pc
    /\ UNCHANGED <<variant, file, filters, matchResult, files, given, orderBy,
                   sortedFiles, images, fileIds, loaded, response, eagleDataPath, req,
                   matchingIds, randomId, calls, served, deleted, providerFailed, lifeVars>>

\* a chunk is read and pipe writes it: the first write sends the headers
StreamData ==
    /\ pc = "streaming"
    /\ stream.phase = "open"
    /\ stream.piped
    /\ res.chunks < PayloadChunks
    /\ res' = write(res)
    /\ UNCHANGED <<variant, pc, file, filters, matchResult, files, given, orderBy,
                   sortedFiles, images, fileIds, loaded, response, eagleDataPath, req,
                   stream, matchingIds, randomId, calls, served, deleted, providerFailed, lifeVars>>

\* the end of the file: the stream closes its descriptor, pipe ends the response
StreamEnd ==
    /\ pc = "streaming"
    /\ stream.phase = "open"
    /\ stream.piped
    /\ res.chunks = PayloadChunks
    /\ stream' = [stream EXCEPT !.phase = "ended", !.fd = FALSE]
    /\ res' = end(res, [kind |-> "payload", path |-> stream.path])
    /\ pc' = "done"
    /\ UNCHANGED <<variant, file, filters, matchResult, files, given, orderBy,
                   sortedFiles, images, fileIds, loaded, response, eagleDataPath, req,
                   matchingIds, randomId, calls, served, deleted, providerFailed, lifeVars>>

\* a read fails: the stream closes its descriptor and emits 'error'; pipe
\* leaves the response as it is, the listener answers 500 only when no header
\* was sent
StreamReadError ==
    /\ pc = "streaming"
    /\ stream.phase = "open"
    /\ stream.piped
    /\ res.chunks < PayloadChunks
    /\ stream' = [stream EXCEPT !.phase = "errored", !.fd = FALSE]
    /\ res' = onStreamError(res)
    /\ pc' = IF onStreamError(res).ends > 0 THEN "done" ELSE pc
    /\ UNCHANGED <<variant, file, filters, matchResult, files, given, orderBy,
                   sortedFiles, images, fileIds, loaded, response, eagleDataPath, req,
                   matchingIds, randomId, calls, served, deleted, providerFailed, lifeVars>>

\* the client goes away while the payload is streamed: the response closes,
\* pipe unpipes and the stream, paused, reads no further
ClientDisconnect ==
    /\ pc = "streaming"
    /\ res.open
    /\ stream.phase \in {"opening", "open"}
    /\ res' = [res EXCEPT !.open = FALSE]
    /\ stream' = [stream EXCEPT !.piped = FALSE]
    /\ UNCHANGED <<variant, pc, file, filters, matchResult, files, given, orderBy,
                   sortedFiles, images, fileIds, loaded, response, eagleDataPath, req,
                   matchingIds, randomId, calls, served, deleted, providerFailed, lifeVars>>

\* the Eagle application removes an item, directory and payload, while a
\* request is being served
LibraryDelete ==
    /\ ~Settled
    /\ Cardinality(deleted) < MaxDeletes
    /\ \E i \in 1..Len(images.dirs) :
          /\ images' = [images EXCEPT !.dirs = SubSeq(@, 1, i - 1) \o SubSeq(@, i + 1, Len(@))]
          /\ deleted' = deleted \cup
                {[ name   |-> images.dirs[i].name,
                   id     |-> removeFirst(images.dirs[i].name, DotInfo),
                   before |-> \A k \in 1..Len(calls) :
                                 calls[k] # <<"loadFileById",
                                              removeFirst(images.dirs[i].name, DotInfo)>> ]}
    /\ UNCHANGED <<variant, pc, file, filters, matchResult, files, given, orderBy,
                   sortedFiles, fileIds, loaded, response, eagleDataPath, req, res,
                   stream, matchingIds, randomId, calls, served, providerFailed, lifeVars>>

\* the events of a read stream: open, data, end, error
StreamStep == StreamOpen \/ StreamData \/ StreamEnd \/ StreamReadError

\* a request arrives and the createServer callback routes it
AcceptStep ==
    \/ Preflight \/ RouteFileById \/ RouteGetList \/ RouteGetRandom
    \/ RouteGetRandomMedia \/ DefaultResponse

\* a handler resumes after an await, or a stream event is delivered
HandlerStep ==
    \/ FileByIdResolve \/ FileByIdStream
    \/ GetListEnumerate \/ GetListLoad \/ GetListRespond \/ ApiGetList
    \/ RandomEnumerate \/ RandomLoadMeta \/ ApiRandomQuery \/ RandomPick
    \/ RandomFileResolve \/ RandomMediaResolve \/ RandomMediaStream
    \/ StreamStep

\* the steps of the plugin and of the Node.js runtime
ServerStep == AcceptStep \/ HandlerStep

NextServer == ServerStep \/ ClientDisconnect \/ LibraryDelete

SpecServer == InitServer /\ [][NextServer]_vars

\* the event loop delivers every event of a flowing stream that is ready;
\* clients and the library owe nothing
FairServer == SpecServer /\ WF_vars(StreamStep)

-----------------------------------------------------------------------------
(* Claims about the random selection                                       *)

\* the ids getRandomFileId enumerates whose item satisfies the filter: in the
\* directory variant the ids whose lightweight record passes matchesFilter, in
\* the catalog variant the ids of the items the catalog answered with
Survivors ==
    IF variant = "dir"
    THEN { id \in Range(IF eagleDataPath THEN getAllFileIds(images) ELSE <<>>) :
             /\ loadFileMetadata(images, id) # null
             /\ matchesFilter(loadFileMetadata(images, id), filters) }
    ELSE Range(matchingIds)

\* getRandomFileId has gone through every candidate and is about to choose
ChoicePending == pc = "filtering" /\ fileIds = <<>>

\* C11: getRandomFileId returns null iff no enumerated item satisfies the
\* filter; otherwise it returns the id of an item that satisfies the filter,
\* and every item that satisfies the filter is a possible result (library
\* unchanged during the call)
C11_RandomIdAmongSurvivors ==
    /\ (pc = "picked" /\ deleted = {})
          => /\ randomId = NoId <=> Survivors = {}
             /\ randomId # NoId => randomId[1] \in Survivors
    /\ (ChoicePending /\ deleted = {})
          => /\ Survivors = {} => getRandomFileIdResults(matchingIds) = {NoId}
             /\ Survivors # {}
                   => getRandomFileIdResults(matchingIds) = { <<id>> : id \in Survivors }

\* A and B both carry the tag x (B as "X"); the second survivor was chosen
C11_Witness ==
    /\ pc = "picked" /\ variant = "dir" /\ deleted = {}
    /\ images.dirs = <<DirA, DirB>>
    /\ filters.tags = StrVal(<<"x">>)
    /\ matchingIds = << <<"A">>, <<"B">> >>
    /\ randomId = << <<"B">> >>

\* the request being served is a GET /getRandom or /getRandomMedia request
RandomRequest ==
    /\ req # null
    /\ req.method = "GET"
    /\ isRoute(req.pathname, PathGetRandom) \/ isRoute(req.pathname, PathGetRandomMedia)

\* C12: while getRandomFileId runs, loadFileById is called for no candidate,
\* only loadFileMetadata, once per enumerated id; and over a whole /getRandom
\* or /getRandomMedia request loadFileById is called for no id other than the
\* selected one
C12_NoFullLoadOfCandidates ==
    RandomRequest
    => /\ pc \in {"enumerate", "filtering"}
             => \A i \in 1..Len(calls) : calls[i][1] # "loadFileById"
       /\ (ChoicePending /\ variant = "dir" /\ eagleDataPath /\ deleted = {})
             => Tail(calls) = [i \in 1..Len(getAllFileIds(images)) |->
                                  <<"loadFileMetadata", getAllFileIds(images)[i]>>]
       /\ \A i \in 1..Len(calls) :
             calls[i][1] = "loadFileById"
                => randomId # NoId /\ calls[i][2] = randomId[1]

\* /getRandom over A and B answered 200 with A: two lightweight lookups, then
\* one full resolution, of A
C12_Witness ==
    /\ pc = "done" /\ variant = "dir"
    /\ RandomRequest /\ isRoute(req.pathname, PathGetRandom)
    /\ res.statusLines = <<200>>
    /\ calls = << <<"getRandomFileId", <<>>>>,
                  <<"loadFileMetadata", <<"A">>>>, <<"loadFileMetadata", <<"B">>>>,
                  <<"loadFileById", <<"A">>>> >>

\* the number of calls of the lookup named op made for this request
CallsOf(op) == Cardinality({i \in 1..Len(calls) : calls[i][1] = op})

\* the record /getRandom answered with
AnsweredItem == res.body.data

\* C13: getRandomFile calls getRandomFileId once and then, when an id was
\* selected, loadFileById exactly once, for that id; it returns null when no
\* candidate matches or the selected item does not resolve, without trying
\* another candidate: /getRandom then answers 404
C13_ResolveSelectedOnce ==
    (pc = "done" /\ RandomRequest /\ isRoute(req.pathname, PathGetRandom))
    => /\ CallsOf("getRandomFileId") = 1
       /\ CallsOf("loadFileById") = (IF randomId = NoId THEN 0 ELSE 1)
       /\ randomId # NoId => calls[Len(calls)] = <<"loadFileById", randomId[1]>>
       /\ (randomId = NoId \/ file = null) <=> res.statusLines = <<404>>
       /\ (randomId # NoId /\ file # null)
             => /\ res.statusLines = <<200>>
                /\ AnsweredItem.id = randomId[1]
       /\ (variant = "dir" /\ randomId # NoId)
             => (file = null <=> (~eagleDataPath \/ loadFileById(images, randomId[1]) = null))

\* A was selected and then removed by the library: 404, although B matches
\* and resolves
C13_Witness ==
    /\ pc = "done" /\ variant = "dir"
    /\ RandomRequest /\ isRoute(req.pathname, PathGetRandom)
    /\ randomId = << <<"A">> >>
    /\ deleted = {[name |-> DirA.name, id |-> <<"A">>, before |-> TRUE]}
    /\ images.dirs = <<DirB>>
    /\ loadFileById(images, <<"B">>) # null
    /\ matchesFilter(loadFileById(images, <<"B">>), filters)
    /\ CallsOf("loadFileById") = 1
    /\ res.statusLines = <<404>>

-----------------------------------------------------------------------------
(* Claims about the request life cycle                                     *)

\* a GET request is being served or was the last one served
GetRequest == req # null /\ req.method = "GET"

\* the ids of the files a /getList answer lists
ListedIds == { res.body.data.files[i].id : i \in 1..Len(res.body.data.files) }

\* C14: when the library deletes an item after the request began and before
\* the request resolved it, the request still completes: /getList omits the
\* item and answers 200, /files/{id}, /getRandom and /getRandomMedia answer
\* 404 for it, and the server accepts the next request (library path
\* configured; by SettledIsExact a request that is not settled has a next step)
C14_DeletionTolerated ==
    (GetRequest /\ eagleDataPath)
    => /\ (Settled /\ served < MaxRequests) => ENABLED DefaultResponse
       /\ (pc = "done" /\ isRoute(req.pathname, PathGetList))
             => res.statusLines = <<200>>
       /\ \A d \in deleted :
             (Settled /\ d.before)
             => /\ isRoute(req.pathname, PathGetList) => d.id \notin ListedIds
                /\ (isFileRoute(req.pathname) /\ req.fileId = d.id)
                      => res.statusLines = <<404>>
                /\ (RandomRequest /\ randomId = <<d.id>>)
                      => res.statusLines = <<404>>

\* /getList over A and B: A was removed after the enumeration and before its
\* turn in the loop; the answer is 200 and lists B alone
C14_Witness ==
    /\ pc = "done" /\ variant = "dir" /\ eagleDataPath
    /\ GetRequest /\ isRoute(req.pathname, PathGetList)
    /\ deleted = {[name |-> DirA.name, id |-> <<"A">>, before |-> TRUE]}
    /\ calls = << <<"loadFileById", <<"A">>>>, <<"loadFileById", <<"B">>>> >>
    /\ res.statusLines = <<200>>
    /\ ListedIds = {<<"B">>}
    /\ res.body.data.total = 1

\* the response of the current request is over: res.end was called, or the
\* client closed the connection
Ended == res # null /\ (res.ends > 0 \/ ~res.open)

\* Settled is exact: a request is settled when and only when no handler step
\* and no stream event is left for it (an invariant of SpecServer)
SettledIsExact == Settled <=> ~ENABLED HandlerStep

\* C15: every request reaches DONE exactly once: once nothing more happens to
\* it its response was ended, and it is never ended twice and never given a
\* second status line
C15_DoneExactlyOnce ==
    res # null =>
       /\ res.ends <= 1
       /\ Len(res.statusLines) <= 1
       /\ Settled => Ended

\* a read of the payload fails in this step: the stream emits 'error'
ReadFails ==
    /\ pc = "streaming"
    /\ stream.phase \in {"opening", "open"}
    /\ stream'.phase = "errored"

\* the answer to a read failure: 500 with the JSON error body when no header
\* was sent, else no further status line
AnswerToReadFailure ==
    IF ~res.headersSent
    THEN /\ res'.statusLines = <<500>>
         /\ res'.body.kind = "json" /\ res'.body.success = FALSE
         /\ res'.body.error = "Error reading file"
         /\ res'.ends = 1
    ELSE res'.statusLines = res.statusLines

\* C16: a read failure while the payload is streamed is answered 500 with a
\* JSON error body when no header was sent; when the headers were sent no
\* further status line is emitted and the response is closed, it does not
\* stay open
C16_ReadFailureClosesResponse ==
    /\ [][ReadFails => AnswerToReadFailure]_vars
    /\ \A n \in 1..MaxRequests :
          (served = n /\ stream.phase = "errored") ~> (served = n /\ Ended)

\* the first half of C16 alone
ReadFailureAnswered == [][ReadFails => AnswerToReadFailure]_vars

\* a read failed after the headers were sent and the response is still open
ReadFailureLeftOpen ==
    /\ pc = "streaming" /\ stream.phase = "errored"
    /\ res.headersSent /\ res.ends = 0 /\ res.open

\* C17: the read handle opened to stream a payload is released on every exit
\* path of the request (normal completion, client disconnect, read error): an
\* open handle is eventually closed while its request is the current one
C17_ReadHandleReleased ==
    \A n \in 1..MaxRequests :
       (served = n /\ stream.fd) ~> (served = n /\ ~stream.fd)

\* the client went away in mid-stream: the stream was let go of by pipe, reads
\* no further and still holds its descriptor
HandleLeftOpen ==
    /\ pc = "streaming" /\ stream.phase = "open"
    /\ ~stream.piped /\ ~res.open /\ stream.fd

\* on the two other exit paths the descriptor is closed
HandleClosedAtEndAndError ==
    stream.phase \in {"ended", "errored"} => ~stream.fd

\* the current request is a preflight
PreflightRequest == req # null /\ req.method = "OPTIONS"

\* C18: a request with method OPTIONS, whatever its path, is answered with an
\* empty 200 response before routing: no handler runs, no item is looked up
C18_PreflightBeforeRouting ==
    PreflightRequest =>
       /\ pc = "done"
       /\ res.statusLines = <<200>> /\ res.body = NoBody /\ res.ends = 1
       /\ calls = <<>>
       /\ fileIds = <<>> /\ loaded = <<>> /\ matchingIds = <<>>
       /\ randomId = NoId /\ file = null /\ response = null
       /\ stream = NoStream

C18_Witness ==
    /\ PreflightRequest
    /\ isFileRoute(req.pathname) /\ fileIdOf(req.pathname) = <<"A">>
    /\ loadFileById(images, <<"A">>) # null /\ eagleDataPath
    /\ pc = "done" /\ res.statusLines = <<200>> /\ res.body = NoBody

\* the three CORS headers
CorsPairs ==
    { <<"Access-Control-Allow-Origin", "*">>,
      <<"Access-Control-Allow-Methods", "GET, OPTIONS">>,
      <<"Access-Control-Allow-Headers", "Content-Type">> }

\* the header block of the current response went out
HeadersOut == res # null /\ res.headersSent

\* C19: with CORS enabled every response the server sends, whatever the route
\* and the outcome, carries the three CORS headers
C19_CorsOnEveryResponse ==
    (enableCORS /\ HeadersOut) => CorsPairs \subseteq res.headers

\* a payload is being streamed: the header block went out with the first chunk
C19_Witness ==
    /\ enableCORS /\ HeadersOut
    /\ pc = "streaming" /\ res.chunks > 0 /\ res.statusLines = <<200>>
    /\ <<"Content-Type", "image/png">> \in res.headers
    /\ CorsPairs \subseteq res.headers

\* the current request asks a data endpoint: /files/{id}, /getList,
\* /getRandom or /getRandomMedia
DataRequest ==
    /\ req # null /\ ~isPreflight(req.method)
    /\ \/ isFileRoute(req.pathname)
       \/ isRoute(req.pathname, PathGetList)
       \/ isRoute(req.pathname, PathGetRandom)
       \/ isRoute(req.pathname, PathGetRandomMedia)

\* C20: while eagleDataPath is unset a request to a data endpoint is answered
\* 503, never 200 with an empty result and never 404
C20_UnconfiguredIs503 ==
    (~eagleDataPath /\ DataRequest /\ HeadersOut) => res.statusLines = <<503>>

\* what the code answers without eagleDataPath
UnconfiguredAnswers ==
    (~eagleDataPath /\ DataRequest /\ HeadersOut) =>
       res.statusLines =
          IF variant = "dir"
          THEN IF isRoute(req.pathname, PathGetList) THEN <<200>> ELSE <<404>>
          ELSE IF isRoute(req.pathname, PathGetList) THEN <<200>>
          ELSE IF isRoute(req.pathname, PathGetRandom)
               THEN IF res.body.success THEN <<200>> ELSE <<404>>
          ELSE <<503>>

\* the current request asks for a payload: /files/{id} or /getRandomMedia
PayloadRequest ==
    /\ req # null /\ ~isPreflight(req.method)
    /\ isFileRoute(req.pathname) \/ isRoute(req.pathname, PathGetRandomMedia)

\* the identifier the request is to stream: the one in the path, or the one
\* getRandomFileId selected
TargetId == IF isFileRoute(req.pathname) THEN <<req.fileId>> ELSE randomId

\* the identifier has no metadata in the library, or its payload is not on disk
Missing(fileId) ==
    \A f \in fullLookup(fileId) : f = null \/ ~existsSync(images, f.path)

\* C21: for /files/{id} and /getRandomMedia, when the identifier has no
\* metadata or its payload is missing from the library at request time, the
\* answer is 404 with a JSON body {success: false, error}; no stream is
\* started, no payload byte and no streaming header is sent (library path
\* configured, library unchanged during the request)
C21_MissingIs404 ==
    (PayloadRequest /\ eagleDataPath /\ deleted = {}
       /\ TargetId # NoId /\ Missing(TargetId[1]))
    => /\ pc # "streaming" /\ stream = NoStream
       /\ res.chunks = 0
       /\ \A h \in res.headers : h[1] \notin {"Content-Disposition", "Cache-Control"}
       /\ pc = "done" =>
             /\ res.statusLines = <<404>>
             /\ res.body.kind = "json" /\ res.body.success = FALSE
             /\ res.body.error \in {"File not found", "File not found on disk"}

\* the catalog names an item whose payload is not on disk
C21_Witness ==
    /\ PayloadRequest /\ eagleDataPath /\ deleted = {} /\ variant = "api"
    /\ isRoute(req.pathname, PathGetRandomMedia)
    /\ randomId = <<<<"P">>>> /\ Missing(<<"P">>)
    /\ pc = "done" /\ res.statusLines = <<404>>
    /\ res.body.error = "File not found on disk"

\* C22: when the catalog provider itself fails, a list query answers with an
\* empty result set, a random query with no match, and the resolution of a
\* single item (/files/{id}) answers 500, not 404
C22_ProviderFailure ==
    (providerFailed /\ pc = "done" /\ DataRequest) =>
       /\ isRoute(req.pathname, PathGetList) =>
             res.statusLines = <<200>> /\ res.body.data.total = 0
       /\ isRoute(req.pathname, PathGetRandom) =>
             res.statusLines = <<404>> /\ res.body.error = "No matching files found"
       /\ isFileRoute(req.pathname) => res.statusLines = <<500>>

\* the list and random halves of C22 alone
ProviderFailureIsEmptyResult ==
    (providerFailed /\ pc = "done" /\ DataRequest) =>
       /\ isRoute(req.pathname, PathGetList) =>
             res.statusLines = <<200>> /\ res.body.data.total = 0
       /\ isRoute(req.pathname, PathGetRandom) =>
             res.statusLines = <<404>> /\ res.body.error = "No matching files found"

\* eagle.item.getById failed for an item of the catalog and the client was
\* told that the file does not exist
ProviderFailureAs404 ==
    /\ providerFailed /\ pc = "done" /\ DataRequest /\ isFileRoute(req.pathname)
    /\ eagleItemGetById(images, req.fileId) # null
    /\ res.statusLines = <<404>> /\ res.body.error = "File not found"

\* the fields of an item in a JSON answer
ItemFields ==
    {"id", "name", "type", "size", "created", "modified", "tags", "folders",
     "ext", "width", "height"}

\* the items of the JSON answer of the current request
AnsweredItems ==
    IF isRoute(req.pathname, PathGetList)
    THEN Range(res.body.data.files)
    ELSE {res.body.data}

\* /getList or /getRandom was answered 200
ItemsAnswered ==
    /\ DataRequest /\ pc = "done" /\ res.statusLines = <<200>>
    /\ isRoute(req.pathname, PathGetList) \/ isRoute(req.pathname, PathGetRandom)

\* C23: no item in a JSON answer of /getList or /getRandom holds the payload
\* location: each has exactly the fields id, name, type, size, created,
\* modified, tags, folders, ext, width, height, neither path nor metadata
C23_NoPayloadLocation ==
    ItemsAnswered => \A item \in AnsweredItems : DOMAIN item = ItemFields

C23_Witness ==
    /\ ItemsAnswered /\ isRoute(req.pathname, PathGetList)
    /\ Len(res.body.data.files) = 2
    /\ \A item \in AnsweredItems : "path" \notin DOMAIN item /\ "metadata" \notin DOMAIN item

\* the records an unfiltered /getList returns for the library as it is now
ListedNow ==
    IF variant = "dir"
    THEN { listRecord(loadFileById(images, id)) :
             id \in { i \in Range(getAllFileIds(images)) : loadFileById(images, i) # null } }
    ELSE { listRecord(convertEagleItemToFile(item, eagleDataPath, now)) :
             item \in Range(catalogItems(images)), now \in Clock }

\* /files/{id} was answered for an id /getList returns, with the library
\* unchanged, the catalog answering and no failure of a read
RoundTrip ==
    /\ DataRequest /\ isFileRoute(req.pathname) /\ pc = "done"
    /\ eagleDataPath /\ deleted = {} /\ ~providerFailed
    /\ stream.phase # "errored"
    /\ \E item \in ListedNow : item.id = req.fileId

\* C24: an id returned by /getList, asked for with /files/{id}, answers 200
\* and streams the whole payload of that item, with a Content-Length header
\* equal to the size /getList reported
C24_RoundTrip ==
    RoundTrip =>
       \A item \in ListedNow :
          item.id = req.fileId =>
             /\ res.statusLines = <<200>>
             /\ res.body.kind = "payload"
             /\ res.body.path = file.path /\ file.id = item.id
             /\ res.chunks = PayloadChunks
             /\ \E h \in res.headers : h[1] = "Content-Length" /\ h[2] = item.size

\* the round trip without the header: the whole payload of the same item is
\* streamed whenever it is on disk
RoundTripStreamsPayload ==
    (RoundTrip /\ ~Missing(req.fileId)) =>
       /\ res.statusLines = <<200>>
       /\ res.body.kind = "payload"
       /\ res.body.path = file.path /\ file.id = req.fileId
       /\ existsSync(images, file.path)
       /\ res.chunks = PayloadChunks

\* a whole payload went out and no header tells its length
StreamedWithoutLength ==
    /\ RoundTrip /\ res.statusLines = <<200>> /\ res.body.kind = "payload"
    /\ \A h \in res.headers : h[1] # "Content-Length"

\* the catalog lists an item whose payload is not on disk
ListedButNotFound ==
    /\ RoundTrip /\ variant = "api" /\ res.statusLines = <<404>>

-----------------------------------------------------------------------------
(* SpecLifecycle: the plugin events onPluginRun and onPluginDestroy, and   *)
(* the events of the http.Servers that startHTTPServer creates             *)

\* how many plugin events and servers one behaviour has at most
MaxServers == 3

ServerStates == {"bound", "listening", "failing", "failed", "closed"}

\* the server holds port 8080: listen(port) binds before it returns, the
\* 'listening' event only reports it
holdsPort(state) == state \in {"bound", "listening"}

PortHeld == \E i \in 1..Len(servers) : holdsPort(servers[i])

\* server.listen(this.port, cb): EADDRINUSE when the port is taken, by a
\* server of this instance or by another process; reported as an 'error'
\* event after startHTTPServer has returned
listenOutcomes == IF PortHeld THEN {"failing"} ELSE {"bound", "failing"}

\* startHTTPServer: this.server is overwritten by a new http.Server; the
\* catch clause sets isRunning = false when createServer or listen throws
startHTTPServer ==
    /\ server' = <<Len(servers) + 1>>
    /\ \/ \E o \in listenOutcomes :
             /\ servers' = Append(servers, o)
             /\ UNCHANGED isRunning
       \/ /\ servers' = Append(servers, "failed")
          /\ isRunning' = FALSE

requestVars == <<file, filters, matchResult, files, given, orderBy, sortedFiles,
                 images, fileIds, loaded, response, req, res, stream,
                 matchingIds, randomId, calls, served, deleted, providerFailed>>

\* eagle.onPluginRun: init() stores eagle.library.path and starts the server,
\* in the API variant after awaiting the test call eagle.item.get
PluginRun ==
    /\ pc \in {"created", "ran", "destroyed"}
    /\ Len(servers) + starting < MaxServers
    /\ pc' = "ran"
    /\ eagleDataPath' \in BOOLEAN
    /\ IF variant = "api"
         THEN /\ starting' = starting + 1
              /\ UNCHANGED <<isRunning, server, servers>>
         ELSE /\ startHTTPServer
              /\ UNCHANGED starting
    /\ UNCHANGED <<variant, requestVars>>

\* init() resumes after the awaited test call, whatever its outcome
InitResume ==
    /\ pc \in {"ran", "destroyed"}
    /\ starting > 0
    /\ starting' = starting - 1
    /\ startHTTPServer
    /\ UNCHANGED <<variant, pc, eagleDataPath, requestVars>>

\* the callback given to listen: the 'listening' event of a bound server
ListenCallback ==
    /\ pc \in {"ran", "destroyed"}
    /\ \E i \in 1..Len(servers) :
          /\ servers[i] = "bound"
          /\ servers' = [servers EXCEPT ![i] = "listening"]
    /\ isRunning' = TRUE
    /\ UNCHANGED <<variant, pc, eagleDataPath, server, starting, requestVars>>

\* the 'error' listener
ServerError ==
    /\ pc \in {"ran", "destroyed"}
    /\ \E i \in 1..Len(servers) :
          /\ servers[i] = "failing"
          /\ servers' = [servers EXCEPT ![i] = "failed"]
    /\ isRunning' = FALSE
    /\ UNCHANGED <<variant, pc, eagleDataPath, server, starting, requestVars>>

\* server.close(): a server that holds the port releases it and its
\* 'listening' event is not emitted any more; on any other server the call
\* changes nothing
close(state) == IF holdsPort(state) THEN "closed" ELSE state

\* stopServer
stopServer ==
    IF server # NoServer
    THEN /\ servers' = [servers EXCEPT ![server[1]] = close(servers[server[1]])]
         /\ isRunning' = FALSE
    ELSE UNCHANGED <<servers, isRunning>>

\* eagle.onPluginDestroy
PluginDestroy ==
    /\ pc \in {"created", "ran", "destroyed"}
    /\ stopServer
    /\ pc' = "destroyed"
    /\ UNCHANGED <<variant, eagleDataPath, server, starting, requestVars>>

InitLifecycle ==
    /\ variant \in {"dir", "api"}
    /\ pc = "created"
    /\ eagleDataPath = FALSE
    /\ IdleMatch
    /\ filters = NoQuery
    /\ IdleSort
    /\ IdleList
    /\ req = null
    /\ res = null
    /\ stream = NoStream
    /\ matchingIds = <<>>
    /\ randomId = NoId
    /\ calls = <<>>
    /\ served = 0
    /\ deleted = {}
    /\ providerFailed = FALSE
    /\ IdleLife

NextLifecycle ==
    PluginRun \/ InitResume \/ ListenCallback \/ ServerError \/ PluginDestroy

SpecLifecycle == InitLifecycle /\ [][NextLifecycle]_vars

\* C25: once onPluginDestroy has been handled, and until the next
\* onPluginRun, no http.Server this instance created holds the port and
\* isRunning is false; and whenever isRunning is true, a server of this
\* instance is listening.
Destroyed == pc = "destroyed"

C25_StoppedAfterDestroy ==
    /\ Destroyed => (~isRunning /\ ~PortHeld)
    /\ isRunning => \E i \in 1..Len(servers) : servers[i] = "listening"

\* the half that holds: isRunning is true only while a server listens
RunningOnlyWhileListening ==
    isRunning => \E i \in 1..Len(servers) : servers[i] = "listening"

\* the first server is still listening after the destroy event: the second
\* onPluginRun replaced this.server, and stopServer closed the replacement
OrphanListensAfterDestroy ==
    /\ Destroyed
    /\ variant = "dir"
    /\ Len(servers) = 2
    /\ servers[1] = "listening"
    /\ server = <<2>>
    /\ ~isRunning

\* a destroy event while init() awaits: the server starts afterwards
StartedAfterDestroy ==
    /\ Destroyed
    /\ variant = "api"
    /\ servers = <<"listening">>
    /\ isRunning

-----------------------------------------------------------------------------
\* C26: after sortFiles(files, orderBy) has returned, the array that was
\* passed in holds its items in the order it had when the call began.
C26_SortOnPrivateCopy == files = given

\* C26 as amended: sortFiles reorders the array it is given and returns that
\* array; getFileList passes [...files], so once the list is answered its own
\* array files still has the order in which the items were collected.
ListAnswered ==
    /\ pc = "done"
    /\ GetRequest
    /\ req.pathname = PathGetList
    /\ response # null

C26_CallerCopySorted ==
    ListAnswered
    => /\ loaded = given
       /\ files = sortedFiles
       /\ IsPermutation(sortedFiles, loaded)

\* the copy was reordered, the caller's array was not
C26_Witness ==
    /\ ListAnswered
    /\ Len(loaded) >= 2
    /\ sortedFiles # loaded
    /\ loaded = given

-----------------------------------------------------------------------------
(* SpecLookup: the lookups called one at a time, on libraries with broken  *)
(* item directories and without an images directory                        *)

MaxLookupLib == 2

\* directories whose names hold ".info" twice, and one that is no item directory
DirInfoInfo ==
    [ name |-> <<"R",".","i","n","f","o",".","i","n","f","o">>, meta |-> "ok",
      metadata |-> << MStr("name", <<"r">>) >>,
      listing |-> << FileEntry(<<"r",".","p","n","g">>, TRUE, 1, 1) >> ]

DirInfoInside ==
    [ name |-> <<"R",".","i","n","f","o","r",".","i","n","f","o">>, meta |-> "ok",
      metadata |-> << MStr("name", <<"q">>) >>,
      listing |-> << FileEntry(<<"q",".","p","n","g">>, TRUE, 1, 1) >> ]

DirInfoAfter ==
    [ name |-> <<"R","r",".","i","n","f","o",".","i","n","f","o">>, meta |-> "ok",
      metadata |-> << MStr("name", <<"s">>) >>,
      listing |-> << FileEntry(<<"s",".","p","n","g">>, TRUE, 1, 1) >> ]

DirOther ==
    [ name |-> <<"t","m","p">>, meta |-> "none", metadata |-> <<>>, listing |-> <<>> ]

LookupDirs == {DirA, DirB, DirD, DirNoMeta, DirBadMeta, DirNoPayload,
               DirInfoInfo, DirInfoInside, DirInfoAfter, DirOther}

LookupLibraries ==
    {[exists |-> FALSE, dirs |-> <<>>]}
    \cup { [exists |-> TRUE, dirs |-> d] : d \in ArraysOf(LookupDirs, MaxLookupLib) }

\* the ids asked for: of the six directories, and one that names none
LookupIds == {<<"A">>, <<"B">>, <<"D">>, <<"N">>, <<"M">>, <<"P">>, <<"Z">>}

InitLookup ==
    /\ variant \in {"dir", "api"}
    /\ pc = "call"
    /\ images \in LookupLibraries
    /\ eagleDataPath \in BOOLEAN
    /\ fileIds \in { <<fileId>> : fileId \in LookupIds }
    /\ loaded = <<>>
    /\ response = null
    /\ filters = NoQuery
    /\ IdleMatch
    /\ IdleSort
    /\ req = null
    /\ res = null
    /\ stream = NoStream
    /\ matchingIds = <<>>
    /\ randomId = NoId
    /\ calls = <<>>
    /\ served = 0
    /\ deleted = {}
    /\ providerFailed = FALSE
    /\ IdleLife

lookupFrame == <<variant, filters, matchResult, files, given, orderBy, sortedFiles,
                 images, response, eagleDataPath, req, res, stream, matchingIds,
                 randomId, served, deleted, lifeVars>>

\* const fileIds = await this.getAllFileIds()
CallGetAllFileIds ==
    /\ pc = "call"
    /\ variant = "dir"
    /\ fileIds' = IF eagleDataPath THEN getAllFileIds(images) ELSE <<>>
    /\ calls' = Append(calls, <<"getAllFileIds", <<>>>>)
    /\ pc' = "enumerated"
    /\ UNCHANGED <<file, loaded, providerFailed>>
    /\ UNCHANGED lookupFrame

\* const file = await this.loadFileById(fileId)
CallLoadFileById ==
    /\ pc \in {"call", "enumerated", "loaded", "loadedMetadata"}
    /\ fileIds # <<>>
    /\ \E o \in lookupOutcomes(Head(fileIds)) :
          /\ file' = o.value
          /\ providerFailed' = o.failed
    /\ calls' = Append(calls, <<"loadFileById", Head(fileIds)>>)
    /\ fileIds' = Tail(fileIds)
    /\ pc' = "loaded"
    /\ UNCHANGED loaded
    /\ UNCHANGED lookupFrame

\* const fileMeta = await this.loadFileMetadata(fileId)
CallLoadFileMetadata ==
    /\ pc \in {"call", "enumerated", "loaded", "loadedMetadata"}
    /\ variant = "dir"
    /\ fileIds # <<>>
    /\ file' = lightLookup(Head(fileIds)).value
    /\ calls' = Append(calls, lightLookup(Head(fileIds)).call)
    /\ fileIds' = Tail(fileIds)
    /\ pc' = "loadedMetadata"
    /\ UNCHANGED <<loaded, providerFailed>>
    /\ UNCHANGED lookupFrame

\* const items = await this.getAllItems(filters) of part_000
CallGetAllItems ==
    /\ pc = "call"
    /\ variant = "api"
    /\ \E apiOk \in BOOLEAN :
          /\ loaded' \in getAllItems(images, filters, apiOk)
          /\ providerFailed' = ~apiOk
    /\ calls' = Append(calls, <<"getAllItems", <<>>>>)
    /\ pc' = "queried"
    /\ UNCHANGED <<file, fileIds>>
    /\ UNCHANGED lookupFrame

NextLookup ==
    CallGetAllFileIds \/ CallLoadFileById \/ CallLoadFileMetadata \/ CallGetAllItems

SpecLookup == InitLookup /\ [][NextLookup]_vars

\* the id the last lookup was called with
LookedUp == calls[Len(calls)][2]

\* the item directory of the id is missing, or has no metadata.json, or a
\* malformed one
Unreadable(fileId) ==
    \/ ~eagleDataPath
    \/ ~itemDirExists(images, fileId)
    \/ itemDir(images, fileId).meta \in {"none", "bad"}

\* the item directory of the id holds no payload file
WithoutPayload(fileId) ==
    /\ eagleDataPath
    /\ itemDirExists(images, fileId)
    /\ itemDir(images, fileId).meta = "ok"
    /\ mainFileOf(itemDir(images, fileId)) = <<>>

Raised(value) == value = SyntaxError

\* C27: no lookup raises; in the directory variant loadFileById and
\* loadFileMetadata return null for an id whose directory is missing, has no
\* or a malformed metadata.json, or holds no payload file; getAllFileIds
\* returns an empty list without an images directory; getAllItems returns an
\* empty list when the catalog fails.
EnumeratesNothing == (~eagleDataPath \/ ~images.exists) => fileIds = <<>>

CatalogErrorIsEmpty == providerFailed => loaded = <<>>

C27_LookupsNeverRaise ==
    /\ pc \in {"loaded", "loadedMetadata"} => ~Raised(file)
    /\ (/\ pc \in {"loaded", "loadedMetadata"}
        /\ variant = "dir"
        /\ Unreadable(LookedUp) \/ WithoutPayload(LookedUp)) => file = null
    /\ pc = "enumerated" => EnumeratesNothing
    /\ pc = "queried" => CatalogErrorIsEmpty

\* C27 as amended: loadFileMetadata does not look for the payload, and
\* answers the light record of a directory whose metadata.json can be read;
\* everything else as above.
C27_LookupsReturnNull ==
    /\ pc \in {"loaded", "loadedMetadata"} => ~Raised(file)
    /\ (/\ pc \in {"loaded", "loadedMetadata"}
        /\ variant = "dir"
        /\ Unreadable(LookedUp)) => file = null
    /\ (pc = "loaded" /\ variant = "api" /\ providerFailed) => file = null
    /\ (pc = "loaded" /\ variant = "dir" /\ WithoutPayload(LookedUp)) => file = null
    /\ (pc = "loadedMetadata" /\ WithoutPayload(LookedUp))
       => (file # null /\ file.id = LookedUp)
    /\ pc = "enumerated" => EnumeratesNothing
    /\ pc = "queried" => CatalogErrorIsEmpty

\* loadFileMetadata was called on a directory with a malformed metadata.json
C27_Witness ==
    /\ calls = << <<"loadFileMetadata", <<"M">>>> >>
    /\ eagleDataPath
    /\ itemDirExists(images, <<"M">>)
    /\ file = null

-----------------------------------------------------------------------------
\* loadFileById has answered an item record
ItemProduced == pc = "loaded" /\ file # null

\* an extension with its leading dot
withDot(ext) == IF ext # <<>> /\ Head(ext) = "." THEN ext ELSE <<".">> \o ext

\* C28: every item record loadFileById produces, in both variants, has an ext
\* that is lower-case and begins with a dot, and its type is what the table
\* of getFileType gives for that extension.
C28_ExtAndType ==
    ItemProduced
    => /\ file.ext # <<>>
       /\ Head(file.ext) = "."
       /\ toLowerCase(file.ext) = file.ext
       /\ file.type = getFileType(withDot(file.ext))

\* what holds: ext is lower-case and type is what getFileType gives for ext
\* as stored; in the directory variant ext is empty or begins with a dot
ExtLowerCaseTypeFromExt ==
    ItemProduced
    => /\ toLowerCase(file.ext) = file.ext
       /\ file.type = getFileType(file.ext)
       /\ variant = "dir" => (file.ext = <<>> \/ Head(file.ext) = ".")

\* the catalog's png item: ext without dot, type other
CatalogExtWithoutDot ==
    /\ ItemProduced
    /\ variant = "api"
    /\ file.id = <<"A">>
    /\ file.ext = <<"p","n","g">>
    /\ file.type = "other"

\* a payload name without extension: ext is empty
PayloadWithoutExtension ==
    /\ ItemProduced
    /\ variant = "dir"
    /\ file.id = <<"D">>
    /\ file.ext = <<>>
    /\ file.type = "other"

\* an upper-case payload name gives a lower-case ext and the type image
UpperCasePayloadName ==
    /\ ItemProduced
    /\ variant = "dir"
    /\ file.name = <<"b",".","P","N","G">>
    /\ file.ext = <<".","p","n","g">>
    /\ file.type = "image"

-----------------------------------------------------------------------------
(* SpecSelect: getRandomFileId(filters), then getFileList(filters) with the *)
(* same filter on the same library, in the directory variant               *)

MaxSelectLib == 2

SelectDirs == {DirA, DirB, DirC, DirNoPayload}

SelectLibraries ==
    { [exists |-> TRUE, dirs |-> d] : d \in ArraysOf(SelectDirs, MaxSelectLib) }

SelectFilters ==
    [ keyword : {Absent, StrVal(<<"p","n","g">>)},
      ext     : {Absent, StrVal(<<"p","n","g">>)},
      tags    : {Absent, StrVal(<<"x">>)},
      folders : {Absent},
      orderBy : {Absent}, limit : {Absent}, offset : {Absent} ]

InitSelect ==
    /\ variant = "dir"
    /\ pc = "enumerate"
    /\ images \in SelectLibraries
    /\ filters \in SelectFilters
    /\ fileIds = <<>>
    /\ loaded = <<>>
    /\ response = null
    /\ IdleMatch
    /\ IdleSort
    /\ eagleDataPath = TRUE
    /\ req = [method |-> "GET", pathname |-> PathGetRandom, fileId |-> <<>>]
    /\ res = corsHeaders(FreshResponse)
    /\ stream = NoStream
    /\ matchingIds = <<>>
    /\ randomId = NoId
    /\ calls = <<>>
    /\ served = 1
    /\ deleted = {}
    /\ providerFailed = FALSE
    /\ ServingLife

\* the caller goes on to getFileList(filters) with the filter it gave to
\* getRandomFileId
ListSameFilter ==
    /\ pc = "picked"
    /\ pc' = "start"
    /\ UNCHANGED <<variant, file, filters, matchResult, files, given, orderBy,
                   sortedFiles, images, fileIds, loaded, response>>
    /\ UNCHANGED serverVars

NextSelect ==
    \/ RandomEnumerate
    \/ RandomLoadMeta
    \/ RandomPick
    \/ ListSameFilter
    \/ GetListEnumerate
    \/ GetListLoad
    \/ GetListRespond

SpecSelect == InitSelect /\ [][NextSelect]_vars

\* both calls have returned
BothSelected == pc = "done" /\ response # null

\* the ids getFileList reported, before the page is cut
ReportedIds == { sortedFiles[i].id : i \in 1..Len(sortedFiles) }

\* the ids getRandomFileId chose from
CandidateIds == Range(matchingIds)

\* C29: for every library and filter, the ids getRandomFileId can return are
\* the ids getFileList reports for the same filter.
C29_LightAndFullAgree == BothSelected => CandidateIds = ReportedIds

\* what holds: every reported id is a candidate when the filter has no ext
ReportedAreCandidates ==
    (BothSelected /\ filters.ext = Absent) => ReportedIds \subseteq CandidateIds

\* an item without payload is a candidate and is not reported
CandidateWithoutPayload ==
    /\ BothSelected
    /\ filters = NoQuery
    /\ <<"P">> \in CandidateIds
    /\ <<"P">> \notin ReportedIds

\* ext=png: A (metadata name "a", payload a.png) is reported and is no
\* candidate
ReportedNotCandidate ==
    /\ BothSelected
    /\ filters.ext = StrVal(<<"p","n","g">>)
    /\ <<"A">> \in ReportedIds
    /\ <<"A">> \notin CandidateIds

-----------------------------------------------------------------------------
\* getAllFileIds has returned the ids of a library that can be read
Enumerated == pc = "enumerated" /\ eagleDataPath /\ images.exists

\* the directories under images whose names end in ".info", in readdir order
InfoDirs ==
    LET EndsInInfo(d) ==
            /\ Len(d.name) >= 5
            /\ SubSeq(d.name, Len(d.name) - 4, Len(d.name)) = <<".","i","n","f","o">>
    IN  SelectSeq(images.dirs, EndsInInfo)

\* the id addresses the directory: "<id>.info" is its name, and the lookups
\* find it under that name
Addresses(fileId, dir) ==
    /\ fileId \o <<".","i","n","f","o">> = dir.name
    /\ itemDirExists(images, fileId)
    /\ itemDir(images, fileId) = dir

\* C30: every directory whose name ends in ".info" gets an id that addresses
\* that directory, also when the name holds ".info" more than once, and
\* distinct directories get distinct ids.
C30_IdRoundTrip ==
    Enumerated
    => /\ Len(fileIds) = Len(InfoDirs)
       /\ \A i \in 1..Len(fileIds) : Addresses(fileIds[i], InfoDirs[i])
       /\ \A i, j \in 1..Len(fileIds) : fileIds[i] = fileIds[j] => i = j

\* ".info" occurs in the name before its end
InfoBeforeEnd(name) ==
    \E k \in 1..(Len(name) - 5) : SubSeq(name, k, k + 4) = <<".","i","n","f","o">>

\* what holds: one id for each directory, in readdir order, and the round
\* trip for every name that holds ".info" at its end only
RoundTripOfPlainNames ==
    Enumerated
    => /\ Len(fileIds) = Len(InfoDirs)
       /\ \A i \in 1..Len(fileIds) :
             ~InfoBeforeEnd(InfoDirs[i].name) => Addresses(fileIds[i], InfoDirs[i])

\* R.infor.info and Rr.info.info both get the id Rr.info
TwoDirectoriesOneId ==
    /\ Enumerated
    /\ Len(fileIds) = 2
    /\ fileIds[1] = fileIds[2]
    /\ fileIds[1] = <<"R","r",".","i","n","f","o">>

\* R.infor.info gets the id Rr.info, which addresses no directory
IdAddressesNothing ==
    /\ Enumerated
    /\ fileIds = << <<"R","r",".","i","n","f","o">> >>
    /\ InfoDirs[1].name = <<"R",".","i","n","f","o","r",".","i","n","f","o">>
    /\ ~itemDirExists(images, fileIds[1])

====
